---- MODULE Spec2Model ----
(***************************************************************************)
(* A state-machine model of electrumx/server/session.py: the session       *)
(* manager (registry, groups, listeners, caches) and the ElectrumX session *)
(* (subscriptions, estimatefee).  Every coroutine is cut at its awaits:    *)
(* the code between two awaits is one atomic action, as under the single   *)
(* asyncio event loop.                                                     *)
(*                                                                         *)
(* Costs are integers (one unit = 1.0 of session cost); group weights are  *)
(* in hundredths (0.03 -> 3, 1.0 -> 100), so extra_cost is in hundredths.  *)
(* The clock counts ticks of 60 seconds.                                   *)
(*                                                                         *)
(* The cost a request handler charges its session (bump_cost) is the       *)
(* BumpCost step of that session; the steps of the cache and subscription  *)
(* sections leave the cost accounts alone.                                 *)
(***************************************************************************)
EXTENDS Integers, Sequences, FiniteSets, TLC

\* ---------------------------------------------------------------- bounds
MaxSid == 2          \* sessions ever constructed (registry specification)
MaxSidAdm == 3       \* sessions ever constructed (admission specification)
MaxSidLife == 2      \* sessions ever constructed (serve from start to end)
MaxVersionCalls == 3 \* server.version requests handled per session
MaxSidRemove == 2    \* sessions ever constructed (remove_session specification)
MaxSidReclaim == 2   \* sessions ever constructed (group reclamation)
MaxSidExcess == 2    \* sessions ever constructed (excessive session cost)
MaxSidAdm10 == 11    \* sessions ever constructed (admission with a limit of 10)
MaxTime == 5         \* last clock tick explored
MaxCost == 8         \* bump_cost is not taken beyond this session cost
NumTxTasks == 2      \* concurrent callers of tx_hashes_at_blockheight
MaxReorgs == 1       \* chain reorganisations the block processor goes through
NumFeeCallers == 3   \* estimatefee requests made (one per caller)
MaxTipChanges == 1   \* changes of the block processor's tip
NumHistTasks == 2    \* concurrent callers of limited_history
MaxHeight == 2       \* blocks indexed after the start
MaxPendingSubs == 1  \* subscribe requests of a session awaiting their status
MaxSidReap == 2      \* sessions that connect while the reaper is watched
MaxSidNotify == 2    \* ElectrumX sessions that dispatches spawn notify tasks for
MaxMempool == 1      \* unconfirmed transactions of one script hash
MaxDispatches == 2   \* _notify_sessions calls that spawn notify tasks

\* ------------------------------------------------------ program constants
ConnectionCost == 5      \* ElectrumX.__init__: self.cost = 5.0
TimesliceWeight == 3     \* add_session: weight 0.03, in hundredths
IpGroupWeight == 100     \* add_session: weight 1.0, in hundredths
RecalcPeriod == 5        \* _recalc_concurrency: period = 300 s = 5 ticks
MinMaxSend == 350000     \* SessionManager.__init__: max(350000, env.max_send)
MerkleCacheMin == 200    \* _merkle_branch: "if tx_hash_count >= 200"
NoHeight == -1           \* notified_height = None
NoFeerate == 0           \* the feerate None of a placeholder entry
NoCaller == 0            \* nobody holds the lock

\* ------------------------------------------------------------ environment
\* env.services: one local RPC service and two external ones.
Services == {"rpc", "tcp", "ssl"}
ExternalServices == {svc \in Services : svc # "rpc"}
\* The order in which _start_servers walks the external services.
ExternalOrder == <<"tcp", "ssl">>
\* Remote addresses a connection can come from: a private address, a host
\* that is not an IP address, and a public network (a /24 or /48 prefix).
Addresses == {"private", "nohost", "net1"}
\* Amounts by which handlers bump a session's cost.
BumpDeltas == {3}
NoGroup == "None"
\* Block heights asked for, with the number of transactions of their block.
Heights == {1, 2}
TxCount == [h \in Heights |-> IF h = 1 THEN 1 ELSE MerkleCacheMin]
\* The tips the block processor moves between.
Tips == {"T1", "T2"}
NoHash == "None"
\* The (bucketed block target, mode) keys requested.
FeeKeys == {<<6, "ECONOMICAL">>, <<6, "None">>}
\* What the daemon's estimatesmartfee and getnetworkinfo answer.
FeeRates == {1, 2}
RelayFees == {3}
\* Script hashes, and the history lengths the DB holds for them: a short
\* history, and one of max_send // 99 entries or more.
HashXs == {"x1", "x2"}
HistLens == {1, 4000}
\* The subscription sets of an ElectrumX session.
SubKinds == {"asset_subs", "qualifier_tag_subs", "h160_tag_subs", "broadcast_subs",
             "frozen_subs", "validator_subs", "qualifier_validator_subs"}
\* Asset names a client sends: a plain name, a qualifier, an empty name.
AssetNames == {"A", "#Q", ""}
\* h160 strings a client sends: 40 hex digits in lower and in upper case,
\* and a string of another length.
H160Lower == "aaaaaaaaaaaaaaaaaaaaaaaaaaaaaaaaaaaaaaaa"
H160Upper == "AAAAAAAAAAAAAAAAAAAAAAAAAAAAAAAAAAAAAAAA"
H160Names == {H160Lower, H160Upper, "aa"}

VARIABLES
    now,              \* time.time(), in ticks
    env,              \* the configuration: max_sessions, cost_hard_limit, max_send
    serve_pc,         \* where SessionManager.serve is
    servers,          \* self.servers: the services that have a listening server
    server_listening, \* self.server_listening (one-shot event)
    session_event,    \* self.session_event
    paused,           \* _manage_servers: paused
    manage_pc,        \* where _manage_servers is
    start_queue,      \* _start_servers: the services still to start
    next_recalc,      \* when _recalc_concurrency's sleep(period) ends
    session_counter,  \* SessionBase.session_counter
    sessions,         \* self.sessions: session -> list of its groups
    session_groups,   \* self.session_groups: name -> group
    groups,           \* the SessionGroup objects: id -> fields
    cost,             \* session.cost of every session object
    skind,            \* session.kind ("rpc", "tcp", "ssl")
    conn,             \* "open" until connection_lost ran, then "lost"
    extra_seen,       \* what the session's last extra_cost() call returned
    reorg_count,      \* self._reorg_count
    reorg_pending,    \* bp.backed_up_event was set and the handler has not run yet
    db_gen,           \* the chain the DB holds: the number of reorgs it went through
    tx_hashes_cache,  \* self._tx_hashes_cache: height -> the list read
    merkle_cache,     \* self._merkle_cache: height -> the list its cache was built on
    tx,               \* the tx_hashes_at_blockheight calls
    tip,              \* bp.state.tip
    tip_changes,      \* how often the tip changed
    estimatefee_cache, \* self.estimatefee_cache: key -> (blockhash, feerate)
    fee_lock,         \* the asyncio.Lock of each key's cache entry
    fee,              \* the estimatefee calls
    daemon_calls,     \* estimatesmartfee requests the daemon received, per key
    db_height,        \* db.state.height
    db_hist,          \* the DB's history of each hashX
    touched_acc,      \* hashXs touched by blocks not yet notified
    history_cache,    \* self._history_cache
    hist,             \* the limited_history calls
    notified_height,  \* self.notified_height
    hsub_results,     \* self.hsub_results
    notify_pc,        \* where _notify_sessions is
    notify_args,      \* the arguments of the _notify_sessions call in progress
    set_subs,         \* the seven subscription sets of every ElectrumX session
    sub_pending,      \* subscribe requests awaiting their status, per session
    unsub_ret,        \* what the session's last unsubscribe returned
    supplied,         \* for the sessions in its domain, per kind: the key
                      \* strings the client subscribed with and did not
                      \* unsubscribe since
    last_recv,        \* session.last_recv as _clear_stale_sessions last read it
    reap_pc,          \* where _clear_stale_sessions is
    reap_wake,        \* when its sleep(60) ends
    close_asked,      \* session -> force_after of the close() spawned for it
    hashX_subs,       \* session.hashX_subs: hashX -> alias
    mempool_statuses, \* session.mempool_statuses: hashX -> status
    subscribe_headers, \* session.subscribe_headers
    mempool,          \* the mempool: hashX -> number of its unconfirmed txs
    sh,               \* the scripthash.subscribe requests being handled
    ntask,            \* the notify task of each session
    sent,             \* the notifications sent to each session, in order
    dispatches,       \* how many _notify_sessions calls were made
    last_computed,    \* per session and hashX: what address_status last computed
    stable,           \* per hashX: a status computed since the DB or mempool last changed
    ready_event,      \* the event serve is given: set when the server has caught up
    notify_func,      \* the callback serve handed to notifications.start
    serve_exc,        \* the exception that ends serve
    stopping,         \* the servers serve's _stop_servers closed and still awaits
    sv,               \* per ElectrumX session: sv_seen, client, protocol_tuple, handlers
    remove_out,       \* how the last remove_session call ended
    unsub_done,       \* per session: the hashXs whose scripthash.unsubscribe
                      \* returned and that were not subscribed again since
    disconnect_out    \* how the last on_disconnect_due_to_excessive_session_cost
                      \* call ended

lifeVars == <<serve_pc, servers, server_listening, paused, manage_pc, start_queue>>
regVars == <<session_counter, sessions, session_groups, groups, cost, skind,
             conn, extra_seen>>
bootVars == <<ready_event, notify_func, serve_exc, stopping>>
callVars == <<sv, remove_out, unsub_done, disconnect_out>>
mgrVars == <<now, env, lifeVars, session_event, next_recalc, regVars, bootVars, callVars>>
txVars == <<reorg_count, reorg_pending, db_gen, tx_hashes_cache, merkle_cache, tx>>
feeVars == <<tip, tip_changes, estimatefee_cache, fee_lock, fee, daemon_calls>>
histVars == <<db_height, db_hist, touched_acc, history_cache, hist, notified_height,
              hsub_results, notify_pc, notify_args>>
cacheVars == <<txVars, feeVars, histVars>>
subVars == <<set_subs, sub_pending, unsub_ret, supplied>>
reapVars == <<last_recv, reap_pc, reap_wake, close_asked>>
shVars == <<hashX_subs, mempool_statuses, subscribe_headers, mempool, sh, ntask,
            sent, dispatches, last_computed, stable>>
restVars == <<reapVars, shVars>>

\* ---------------------------------------------------------------- helpers
RECURSIVE SumOver(_, _)
\* sum(f[x] for x in S)
SumOver(f, S) ==
    IF S = {} THEN 0
    ELSE LET x == CHOOSE y \in S : TRUE IN f[x] + SumOver(f, S \ {x})

Range(q) == {q[i] : i \in 1..Len(q)}

Max(a, b) == IF a >= b THEN a ELSE b

Min(a, b) == IF a <= b THEN a ELSE b

\* d[k] = v on a dict
Put(f, k, v) == [x \in DOMAIN f \cup {k} |-> IF x = k THEN v ELSE f[x]]

\* del d[k] for every k of K
Drop(f, K) == [x \in DOMAIN f \ K |-> f[x]]

\* The elements of a set in some order.
RECURSIVE SeqOf(_)
SeqOf(S) == IF S = {} THEN <<>>
            ELSE LET x == CHOOSE y \in S : TRUE IN <<x>> \o SeqOf(S \ {x})

\* The status None.
NoStatus == [len |-> -1, at |-> -1, m |-> -1]

\* db.raw_header(height).hex()
raw_header_hex(h) == "header" \o ToString(h)

\* A refresh that pairs the height with the header of the height before.
hsub_of_header_before(height, dbheight) ==
    [hex |-> raw_header_hex((IF height < dbheight THEN height ELSE dbheight) - 1),
     height |-> IF height < dbheight THEN height ELSE dbheight]

\* _refresh_hsub_results(height): the header subscription result of the
\* height, which is never above the DB's.
hsub_of(height, dbheight) ==
    [hex |-> raw_header_hex(IF height < dbheight THEN height ELSE dbheight),
     height |-> IF height < dbheight THEN height ELSE dbheight]

\* A session's notify task before _notify_sessions spawned one.
IdleNotify == [pc |-> "idle", d |-> 0, height_changed |-> FALSE, touched |-> {},
               sets |-> <<>>, k |-> 0, todo |-> {}, mtodo |-> <<>>, cur |-> "none",
               alias |-> "none", changed |-> <<>>, skipped |-> {}]

\* The session objects that exist (constructed so far).
SessionObjects == DOMAIN cost
\* The sessions in the manager's registry.
Registered == DOMAIN sessions

\* SessionGroup.session_cost
session_cost(g) == SumOver(cost, groups[g].sessions)

\* SessionGroup.cost
group_cost(g) == groups[g].retained_cost + session_cost(g)

\* SessionManager._ip_addr_group_name
ip_addr_group_name(a) ==
    IF a = "private" THEN NoGroup
    ELSE IF a = "nohost" THEN "unknown_addr"
    ELSE a

\* SessionManager._timeslice_name: f't{int(start_time - self.start_time) // 300}'
\* (the manager starts at tick 0; a tick is 60 s).
timeslice_name(st) == "t" \o ToString((st * 60) \div 300)

\* A fresh object id for a SessionGroup.
NewGid(gs) == CHOOSE n \in 0..Cardinality(DOMAIN gs) : n \notin DOMAIN gs

\* SessionManager._session_group, as a state transformer on
\* <<session_groups, groups>>; the third component is the group returned.
session_group_step(st, name, weight) ==
    IF name = NoGroup THEN <<st[1], st[2], -1>>
    ELSE IF name \in DOMAIN st[1] THEN <<st[1], st[2], st[1][name]>>
    ELSE LET g == NewGid(st[2])
             obj == [name |-> name, weight |-> weight, sessions |-> {},
                     retained_cost |-> 0]
         IN <<[n \in DOMAIN st[1] \cup {name} |->
                  IF n = name THEN g ELSE st[1][n]],
              [x \in DOMAIN st[2] \cup {g} |->
                  IF x = g THEN obj ELSE st[2][x]],
              g>>

\* The value that stands for an exception raised by a call.
Raised == -1

\* extra_cost with self.sessions[session] in place of self.sessions.get:
\* a KeyError for a session that is no longer registered.
extra_cost_in_keyerror(reg, gs, c, s) ==
    IF s \notin DOMAIN reg THEN Raised
    ELSE LET term(i) == LET g == reg[s][i]
                        IN (gs[g].retained_cost + SumOver(c, gs[g].sessions) - c[s])
                           * gs[g].weight
             terms == [i \in 1..Len(reg[s]) |-> term(i)]
         IN SumOver(terms, DOMAIN terms)

\* SessionManager.extra_cost, over a given registry, heap and cost table.
\* The result is in hundredths of a cost unit.
extra_cost_in(reg, gs, c, s) ==
    IF s \notin DOMAIN reg THEN 0
    ELSE LET term(i) == LET g == reg[s][i]
                        IN (gs[g].retained_cost + SumOver(c, gs[g].sessions) - c[s])
                           * gs[g].weight
             terms == [i \in 1..Len(reg[s]) |-> term(i)]
         IN SumOver(terms, DOMAIN terms)

\* SessionManager.extra_cost in the current state.
extra_cost(s) == extra_cost_in(sessions, groups, cost, s)

\* ------------------------------------------------------------ registry
\* depart, forgetting group.sessions.remove(session).
depart_keeps_member(gobj, s, c) ==
    [gobj EXCEPT !.retained_cost = @ + c]

\* depart, forgetting to retain the departing session's cost.
depart_drops_cost(gobj, s, c) ==
    [gobj EXCEPT !.sessions = @ \ {s}]

\* remove_session's loop body, on one group object: the departing
\* session's cost is retained and the session leaves the group.
depart(gobj, s, c) ==
    [gobj EXCEPT !.retained_cost = @ + c, !.sessions = @ \ {s}]

\* SessionManager.add_session, as the new <<sessions, session_groups, groups>>.
add_session(s, start, a) ==
    LET st1 == session_group_step(<<session_groups, groups>>,
                                  timeslice_name(start), TimesliceWeight)
        st2 == session_group_step(<<st1[1], st1[2]>>,
                                  ip_addr_group_name(a), IpGroupWeight)
        glist == SelectSeq(<<st1[3], st2[3]>>, LAMBDA g : g # -1)
    IN <<[x \in DOMAIN sessions \cup {s} |-> IF x = s THEN glist ELSE sessions[x]],
         st2[1],
         [g \in DOMAIN st2[2] |->
             IF g \in Range(glist)
             THEN [st2[2][g] EXCEPT !.sessions = @ \cup {s}]
             ELSE st2[2][g]]>>

\* SessionManager.remove_session for a registered session, as the new
\* <<sessions, groups>>.
remove_session(s) ==
    <<[x \in DOMAIN sessions \ {s} |-> sessions[x]],
      [g \in DOMAIN groups |->
          IF g \in Range(sessions[s]) THEN depart(groups[g], s, cost[s])
          ELSE groups[g]]>>

\* What a session's recalc_concurrency gets from extra_cost(): ElectrumX
\* asks the manager, LocalRPC keeps the base class's 0.
session_extra_cost(reg, gs, c, k, s) ==
    IF k = "rpc" THEN 0 ELSE extra_cost_in(reg, gs, c, s)

\* ElectrumX: PROTOCOL_MIN, PROTOCOL_MAX, PROTOCOL_BAD
PROTOCOL_MIN == <<1, 4>>
PROTOCOL_MAX == <<1, 11>>
PROTOCOL_BAD == {<<1, 9>>}
\* util.protocol_version found no common version.
NoTuple == <<>>

\* What ElectrumX.__init__ leaves of the protocol negotiation: sv_seen =
\* False, client = 'unknown' (SessionBase), set_request_handlers(
\* PROTOCOL_MIN).  handlers is the protocol tuple the installed table was
\* built for; reply, disconnect and calls record the server.version calls
\* handled: the last answer, whether a ReplyAndDisconnect was raised, and
\* their number (each bumps the cost by 0.5).
NewSv == [sv_seen |-> FALSE, client |-> "unknown", protocol_tuple |-> PROTOCOL_MIN,
          handlers |-> PROTOCOL_MIN, reply |-> "none", disconnect |-> FALSE,
          calls |-> 0]

\* SessionBase.__init__ (then ElectrumX.__init__ or LocalRPC.__init__) on a
\* connection accepted by the listener of service k from address a.
NewSession(k, a, lim) ==
    /\ k \in servers
    /\ session_counter < lim
    /\ LET s == session_counter
           r == add_session(s, now, a)
           c0 == [x \in DOMAIN cost \cup {s} |-> IF x = s THEN 0 ELSE cost[x]]
       IN /\ session_counter' = session_counter + 1
          /\ session_event' = TRUE
          /\ sessions' = r[1]
          /\ session_groups' = r[2]
          /\ groups' = r[3]
          /\ extra_seen' = [x \in DOMAIN extra_seen \cup {s} |->
                IF x = s THEN session_extra_cost(r[1], r[3], c0, k, s)
                ELSE extra_seen[x]]
          /\ cost' = [c0 EXCEPT ![s] = IF k = "rpc" THEN 0 ELSE ConnectionCost]
          /\ skind' = [x \in DOMAIN skind \cup {s} |-> IF x = s THEN k ELSE skind[x]]
          /\ conn' = [x \in DOMAIN conn \cup {s} |-> IF x = s THEN "open" ELSE conn[x]]
          /\ set_subs' = IF k = "rpc" THEN set_subs
                         ELSE Put(set_subs, s, [kd \in SubKinds |-> {}])
          /\ UNCHANGED supplied
          /\ last_recv' = IF reap_pc = "off" THEN last_recv ELSE Put(last_recv, s, now)
          /\ sv' = IF k = "rpc" THEN sv ELSE Put(sv, s, NewSv)
          /\ IF k = "rpc"
             THEN UNCHANGED <<hashX_subs, mempool_statuses, subscribe_headers,
                              ntask, sent, last_computed>>
             ELSE /\ hashX_subs' = Put(hashX_subs, s, <<>>)
                  /\ mempool_statuses' = Put(mempool_statuses, s, <<>>)
                  /\ subscribe_headers' = Put(subscribe_headers, s, FALSE)
                  /\ ntask' = Put(ntask, s, IdleNotify)
                  /\ sent' = Put(sent, s, <<>>)
                  /\ last_computed' = Put(last_computed, s, <<>>)
    /\ UNCHANGED <<bootVars, remove_out, unsub_done, disconnect_out>>
    /\ UNCHANGED <<now, env, lifeVars, next_recalc>>
    /\ UNCHANGED <<cacheVars, sub_pending, unsub_ret>>
    /\ UNCHANGED <<reap_pc, reap_wake, close_asked>>
    /\ UNCHANGED <<mempool, sh, dispatches, stable>>

\* SessionBase.connection_lost: deregister from the manager.
ConnectionLost(s) ==
    /\ s \in SessionObjects
    /\ conn[s] = "open"
    /\ s \in Registered
    /\ conn' = [conn EXCEPT ![s] = "lost"]
    /\ session_event' = TRUE
    /\ sessions' = remove_session(s)[1]
    /\ groups' = remove_session(s)[2]
    /\ remove_out' = "ok"
    /\ UNCHANGED <<bootVars, sv, unsub_done, disconnect_out>>
    /\ UNCHANGED <<now, env, lifeVars, next_recalc, session_counter,
                   session_groups, cost, skind, extra_seen>>
    /\ UNCHANGED <<cacheVars, subVars, restVars>>

\* remove_session(s) for a session that is not in self.sessions (a second
\* call for the same session): session_event is set, then
\* "groups = self.sessions.pop(session)" raises KeyError.
RemoveAbsent(s) ==
    /\ s \in SessionObjects \ Registered
    /\ session_event' = TRUE
    /\ remove_out' = "KeyError"
    /\ UNCHANGED <<now, env, lifeVars, next_recalc, regVars, bootVars, sv, unsub_done,
                   disconnect_out>>
    /\ UNCHANGED <<cacheVars, subVars, restVars>>

\* bump_cost(d) in a handler or notify task of session s, which may still be
\* running after the session was removed:
\* bump_cost -> recalc_concurrency -> extra_cost.
BumpCost(s, d) ==
    /\ s \in SessionObjects
    /\ cost[s] + d <= MaxCost
    /\ cost' = [cost EXCEPT ![s] = @ + d]
    /\ extra_seen' = [extra_seen EXCEPT ![s] =
                         session_extra_cost(sessions, groups, cost', skind[s], s)]
    /\ UNCHANGED <<bootVars, callVars>>
    /\ UNCHANGED <<now, env, lifeVars, next_recalc, session_event, session_counter,
                   sessions, session_groups, groups, skind, conn>>
    /\ UNCHANGED <<cacheVars, subVars, restVars>>

\* ElectrumX.on_disconnect_due_to_excessive_session_cost:
\* "groups = self.session_mgr.sessions[self]", then the names of the groups
\* are logged.
on_disconnect_due_to_excessive_session_cost(reg, s) ==
    IF s \in DOMAIN reg THEN "logged" ELSE "KeyError"

\* bump_cost(d) in a handler or notify task of the ElectrumX session s, where
\* recalc_concurrency, after extra_cost, finds the session's cost excessive
\* (when it does is the RPC library's decision) and calls
\* on_disconnect_due_to_excessive_session_cost.
ExcessiveCost(s, d) ==
    /\ s \in SessionObjects /\ skind[s] # "rpc"
    /\ cost[s] + d <= MaxCost
    /\ cost' = [cost EXCEPT ![s] = @ + d]
    /\ extra_seen' = [extra_seen EXCEPT ![s] =
                         session_extra_cost(sessions, groups, cost', skind[s], s)]
    /\ disconnect_out' = on_disconnect_due_to_excessive_session_cost(sessions, s)
    /\ UNCHANGED <<bootVars, sv, remove_out, unsub_done>>
    /\ UNCHANGED <<now, env, lifeVars, next_recalc, session_event, session_counter,
                   sessions, session_groups, groups, skind, conn>>
    /\ UNCHANGED <<cacheVars, subVars, restVars>>

\* A deadness test that does not look at the members.
is_dead_ignoring_members(gobj) == gobj.retained_cost = 0

\* _recalc_concurrency: is the group dead after the refund?
is_dead(gobj) == gobj.retained_cost = 0 /\ gobj.sessions = {}

\* The refund without the period factor.
refund_without_period == env.cost_hard_limit \div 5000

\* _recalc_concurrency: refund = period * hard_limit / 5000, period = 300.
refund == (300 * env.cost_hard_limit) \div 5000

\* The body of _recalc_concurrency's loop after the sleep: retained costs
\* are refunded, dead groups are dropped and every registered session
\* recalculates its concurrency.
recalc_round ==
    LET live == {session_groups[n] : n \in DOMAIN session_groups}
        refunded == [g \in DOMAIN groups |->
            IF g \in live
            THEN [groups[g] EXCEPT !.retained_cost = Max(0, @ - refund)]
            ELSE groups[g]]
        dead == {g \in live : is_dead(refunded[g])}
        keptNames == {n \in DOMAIN session_groups : session_groups[n] \notin dead}
        \* objects nothing refers to any more are garbage
        reachable == {session_groups[n] : n \in keptNames}
                     \cup UNION {Range(sessions[s]) : s \in Registered}
    IN /\ session_groups' = [n \in keptNames |-> session_groups[n]]
       /\ groups' = [g \in DOMAIN groups \cap reachable |-> refunded[g]]
       /\ extra_seen' = [s \in DOMAIN extra_seen |->
             IF s \in Registered
             THEN session_extra_cost(sessions, groups', cost, skind[s], s)
             ELSE extra_seen[s]]

\* One round of _recalc_concurrency, when its sleep(period) ends.
RecalcConcurrency ==
    /\ serve_pc = "running"
    /\ now >= next_recalc
    /\ recalc_round
    /\ next_recalc' = now + RecalcPeriod
    /\ UNCHANGED <<bootVars, callVars>>
    /\ UNCHANGED <<now, env, lifeVars, session_event, session_counter, sessions,
                   cost, skind, conn>>
    /\ UNCHANGED <<cacheVars, subVars, restVars>>

\* A whole period of _recalc_concurrency: its sleep(period) ends and the
\* round runs.  The clock is read by _timeslice_name only; the timeslices
\* past the last tick explored are merged into the last one.
RecalcPeriodEnds ==
    /\ serve_pc = "running"
    /\ now' = Min(Max(now, next_recalc), MaxTime)
    /\ recalc_round
    /\ next_recalc' = now' + RecalcPeriod
    /\ UNCHANGED <<bootVars, callVars>>
    /\ UNCHANGED <<env, lifeVars, session_event, session_counter, sessions,
                   cost, skind, conn>>
    /\ UNCHANGED <<cacheVars, subVars, restVars>>

\* Time passes by d ticks, up to the next sleep that ends: a due
\* _recalc_concurrency round runs before time goes on.
Tick(d) ==
    /\ now + d <= MaxTime
    /\ serve_pc = "running" => now + d <= next_recalc
    /\ now' = now + d
    /\ UNCHANGED <<bootVars, callVars>>
    /\ UNCHANGED <<env, lifeVars, next_recalc, session_event, regVars>>
    /\ UNCHANGED <<cacheVars, subVars, restVars>>

\* ---------------------------------------------------------- server.version
\* Client names sent: none, a short one, one of more than 17 characters, and
\* one that the configured drop_client pattern matches.
ClientNames == {"", "wallet", "a-wallet-with-a-long-name", "dropme"}
DroppedClients == {"dropme"}

\* What util.protocol_version returns for the versions a client sends: a
\* tuple between PROTOCOL_MIN and PROTOCOL_MAX, or None.
ProtocolResults == {NoTuple, <<1, 4>>, <<1, 9>>, <<1, 11>>}

\* server_version: self.env.drop_client is not None and
\* self.env.drop_client.match(client_name)
drop_client_match(name) == name \in DroppedClients

\* server_version: client_name[:17]
client_of(name) == IF Len(name) > 17 THEN SubSeq(name, 1, 17) ELSE name

\* A test that lets every server.version through.
already_sent_never(r) == FALSE

\* server_version: "if self.sv_seen"
already_sent(r) == r.sv_seen

\* ElectrumX.server_version(client_name, protocol_version) on session s,
\* where util.protocol_version returns pt.  The handler has no await.
server_version(r, name, pt) ==
    LET c == [r EXCEPT !.calls = @ + 1]
    IN IF already_sent(r)
       THEN [c EXCEPT !.reply = "BAD_REQUEST"]
       ELSE LET seen == [c EXCEPT !.sv_seen = TRUE]
                refused == [seen EXCEPT !.reply = "BAD_REQUEST", !.disconnect = TRUE]
            IN IF name # "" /\ drop_client_match(name) THEN refused
               ELSE LET named == IF name # "" THEN [seen EXCEPT !.client = client_of(name)]
                                 ELSE seen
                    IN IF pt \in PROTOCOL_BAD \/ pt = NoTuple
                       THEN [named EXCEPT !.reply = "BAD_REQUEST", !.disconnect = TRUE]
                       ELSE [named EXCEPT !.protocol_tuple = pt, !.handlers = pt,
                                          !.reply = "ok"]

\* A server.version request of session s is handled.
ServerVersion(s, name, pt) ==
    /\ s \in DOMAIN sv /\ conn[s] = "open"
    /\ sv[s].calls < MaxVersionCalls
    /\ sv' = [sv EXCEPT ![s] = server_version(@, name, pt)]
    /\ UNCHANGED <<now, env, lifeVars, session_event, next_recalc, regVars, bootVars,
                   remove_out, unsub_done, disconnect_out>>
    /\ UNCHANGED <<cacheVars, subVars, restVars>>

\* ------------------------------------------------- listeners and admission
\* A low watermark one below the code's.
low_watermark_one_less == (env.max_sessions * 19) \div 20 - 1

\* _manage_servers: low_watermark = max_sessions * 19 // 20
low_watermark == (env.max_sessions * 19) \div 20

\* A pause test that waits for the limit to be exceeded.
must_pause_above_limit == ~paused /\ Cardinality(Registered) > env.max_sessions

\* _manage_servers: "if not paused and len(self.sessions) >= max_sessions"
must_pause == ~paused /\ Cardinality(Registered) >= env.max_sessions

\* The resume test without the watermark: resume whenever paused.
may_resume_any_count(p) == p

\* A resume test that needs the count below the watermark.
may_resume_strictly_below(p) == p /\ Cardinality(Registered) < low_watermark

\* _manage_servers: "if paused and len(self.sessions) <= low_watermark",
\* given the value paused has when the test is reached.
may_resume(p) == p /\ Cardinality(Registered) <= low_watermark

\* _start_servers: one "await serve(...)" returns for the head of the queue;
\* ok = FALSE is the OSError branch (the server failed to listen).
start_one(ok) ==
    IF ok THEN servers \cup {Head(start_queue)} ELSE servers

\* serve: the RPC listener is started first, then serve waits for the event.
ServeStartRpc(ok) ==
    /\ serve_pc = "init"
    /\ servers' = IF ok THEN servers \cup {"rpc"} ELSE servers
    /\ serve_pc' = "await_event"
    /\ UNCHANGED <<bootVars, callVars>>
    /\ UNCHANGED <<now, env, server_listening, session_event, paused, manage_pc,
                   start_queue, next_recalc, regVars>>
    /\ UNCHANGED <<cacheVars, subVars, restVars>>

\* The controller sets the event serve waits for.
EventSet ==
    /\ ~ready_event
    /\ ready_event' = TRUE
    /\ UNCHANGED <<now, env, lifeVars, session_event, next_recalc, regVars>>
    /\ UNCHANGED <<notify_func, serve_exc, stopping, callVars>>
    /\ UNCHANGED <<cacheVars, subVars, restVars>>

\* serve going on without waiting for the event.
event_wait_skipped == TRUE

\* serve: "await event.wait()" returns once the event is set.
event_wait_done == ready_event

\* serve: the event is set; the session class parameters are published and
\* notifications.start is called with the DB height and _notify_sessions.
ServeEvent ==
    /\ serve_pc = "await_event"
    /\ event_wait_done
    /\ serve_pc' = "await_notifications"
    /\ notify_func' = "_notify_sessions"
    /\ UNCHANGED <<ready_event, serve_exc, stopping, callVars>>
    /\ UNCHANGED <<now, env, servers, server_listening, session_event, paused,
                   manage_pc, start_queue, next_recalc, regVars>>
    /\ UNCHANGED <<cacheVars, subVars, restVars>>

\* serve: "Start notifications; initialize hsub_results": notifications.start
\* called _notify_sessions with the DB height and nothing touched, which
\* refreshed hsub_results and notified_height, and returned;
\* _start_external_servers begins.
ServeNotificationsStarted ==
    /\ serve_pc = "await_notifications"
    /\ serve_pc' = "starting"
    /\ start_queue' = ExternalOrder
    /\ hsub_results' = hsub_of(db_height, db_height)
    /\ notified_height' = db_height
    /\ UNCHANGED <<bootVars, callVars>>
    /\ UNCHANGED <<now, env, servers, server_listening, session_event, paused,
                   manage_pc, next_recalc, regVars>>
    /\ UNCHANGED <<db_height, db_hist, touched_acc, history_cache, hist, notify_pc,
                   notify_args>>
    /\ UNCHANGED <<txVars, feeVars, subVars, restVars>>

\* serve: one external server started; after the last one server_listening
\* is set and the supervisors are spawned.
ServeStartOne(ok) ==
    /\ serve_pc = "starting"
    /\ start_queue # <<>>
    /\ servers' = start_one(ok)
    /\ start_queue' = Tail(start_queue)
    /\ IF Tail(start_queue) = <<>>
       THEN /\ server_listening' = TRUE
            /\ serve_pc' = "running"
            /\ manage_pc' = "wait"
            /\ next_recalc' = now + RecalcPeriod
       ELSE UNCHANGED <<server_listening, serve_pc, manage_pc, next_recalc>>
    /\ UNCHANGED <<bootVars, callVars>>
    /\ UNCHANGED <<now, env, session_event, paused, regVars>>
    /\ UNCHANGED <<cacheVars, subVars, restVars>>

\* _manage_servers wakes on session_event and clears it.  At the session
\* limit it closes the external servers (popped from self.servers and closed
\* before the first await); otherwise it goes on to the resume test.
ManageWake ==
    /\ manage_pc = "wait"
    /\ session_event
    /\ session_event' = FALSE
    /\ IF must_pause
       THEN IF servers \cap ExternalServices # {}
            THEN \* _stop_servers suspends in wait_closed()
                 /\ servers' = servers \ ExternalServices
                 /\ manage_pc' = "closing"
                 /\ UNCHANGED <<paused, start_queue>>
            ELSE \* nothing to close: _stop_servers returns at once
                 /\ UNCHANGED servers
                 /\ IF may_resume(TRUE)
                    THEN /\ paused' = TRUE
                         /\ manage_pc' = "starting"
                         /\ start_queue' = ExternalOrder
                    ELSE /\ paused' = TRUE
                         /\ manage_pc' = "wait"
                         /\ UNCHANGED start_queue
       ELSE /\ UNCHANGED <<servers, paused>>
            /\ IF may_resume(paused)
               THEN /\ manage_pc' = "starting"
                    /\ start_queue' = ExternalOrder
               ELSE /\ manage_pc' = "wait"
                    /\ UNCHANGED start_queue
    /\ UNCHANGED <<bootVars, callVars>>
    /\ UNCHANGED <<now, env, serve_pc, server_listening, next_recalc, regVars>>
    /\ UNCHANGED <<cacheVars, subVars, restVars>>

\* _manage_servers: _stop_servers returned; paused = True, then the resume
\* test with the session count of this moment.
ManageClosed ==
    /\ manage_pc = "closing"
    /\ paused' = TRUE
    /\ IF may_resume(TRUE)
       THEN /\ manage_pc' = "starting"
            /\ start_queue' = ExternalOrder
       ELSE /\ manage_pc' = "wait"
            /\ UNCHANGED start_queue
    /\ UNCHANGED <<bootVars, callVars>>
    /\ UNCHANGED <<now, env, serve_pc, servers, server_listening, session_event,
                   next_recalc, regVars>>
    /\ UNCHANGED <<cacheVars, subVars, restVars>>

\* _manage_servers: one server of _start_external_servers started; after the
\* last one server_listening is set and paused = False.
ManageStartOne(ok) ==
    /\ manage_pc = "starting"
    /\ start_queue # <<>>
    /\ servers' = start_one(ok)
    /\ start_queue' = Tail(start_queue)
    /\ IF Tail(start_queue) = <<>>
       THEN /\ server_listening' = TRUE
            /\ paused' = FALSE
            /\ manage_pc' = "wait"
       ELSE UNCHANGED <<server_listening, paused, manage_pc>>
    /\ UNCHANGED <<bootVars, callVars>>
    /\ UNCHANGED <<now, env, serve_pc, session_event, next_recalc, regVars>>
    /\ UNCHANGED <<cacheVars, subVars, restVars>>

\* ------------------------------------------------------- the end of serve
\* serve: "session.close(force_after=1)", in tenths of a second.
ShutdownForceAfter == 10

\* What ends serve: its task is cancelled, a supervisor raises (the result
\* of its task is re-raised inside the TaskGroup), or an await of the startup
\* raises something _start_servers does not catch.
Terminations == {"CancelledError", "supervisor", "startup"}

\* The awaits of serve at which it can end with e.
may_terminate(e) ==
    IF e = "CancelledError"
    THEN serve_pc \in {"init", "await_event", "await_notifications", "starting",
                       "running"}
    ELSE IF e = "supervisor" THEN serve_pc = "running"
    ELSE serve_pc \in {"init", "await_notifications", "starting"}

\* A shutdown that leaves the RPC listener alone.
shutdown_services_external == servers \cap ExternalServices

\* serve, finally: "await self._stop_servers(self.servers.keys())"
shutdown_services == servers

\* serve, finally: "for session in list(self.sessions): await group.spawn(
\* session.close(force_after=1))"
shutdown_closes ==
    [s \in DOMAIN close_asked \cup Registered |->
        IF s \in Registered THEN ShutdownForceAfter ELSE close_asked[s]]

\* serve ends with e at the await it is at.  Leaving the TaskGroup with an
\* exception cancels the supervisors.  The finally clause begins:
\* _stop_servers pops every server of the map and closes it, then awaits
\* wait_closed() of each; with an empty map it returns at once and the
\* closes of the sessions are spawned.
ServeTerminate(e) ==
    /\ serve_exc = "None"
    /\ may_terminate(e)
    /\ serve_exc' = e
    /\ manage_pc' = "off"
    /\ reap_pc' = "off"
    /\ start_queue' = <<>>
    /\ servers' = servers \ shutdown_services
    /\ IF shutdown_services = {}
       THEN /\ serve_pc' = "closing_sessions"
            /\ stopping' = <<>>
            /\ close_asked' = shutdown_closes
       ELSE /\ serve_pc' = "stopping"
            /\ stopping' = SeqOf(shutdown_services)
            /\ UNCHANGED close_asked
    /\ UNCHANGED <<now, env, server_listening, paused, session_event, next_recalc,
                   regVars>>
    /\ UNCHANGED <<ready_event, notify_func, callVars>>
    /\ UNCHANGED <<last_recv, reap_wake>>
    /\ UNCHANGED <<cacheVars, subVars, shVars>>

\* _stop_servers: one "await server.wait_closed()" returns; after the last
\* one the closes of the sessions registered then are spawned.
ServeWaitClosed ==
    /\ serve_pc = "stopping"
    /\ stopping # <<>>
    /\ stopping' = Tail(stopping)
    /\ IF Tail(stopping) = <<>>
       THEN /\ serve_pc' = "closing_sessions"
            /\ close_asked' = shutdown_closes
       ELSE UNCHANGED <<serve_pc, close_asked>>
    /\ UNCHANGED <<now, env, servers, server_listening, paused, manage_pc,
                   start_queue, session_event, next_recalc, regVars>>
    /\ UNCHANGED <<ready_event, notify_func, serve_exc, callVars>>
    /\ UNCHANGED <<last_recv, reap_pc, reap_wake>>
    /\ UNCHANGED <<cacheVars, subVars, shVars>>

\* session.close(force_after=1) of a session asked to close ends with
\* connection_lost, at the latest when the transport is aborted.
ServeSessionClosed(s) ==
    /\ serve_pc = "closing_sessions"
    /\ s \in DOMAIN close_asked
    /\ ConnectionLost(s)

\* serve, finally: every close returned, the TaskGroup is left; "raise"
\* re-raises the exception that ended serve.
ServeReraise ==
    /\ serve_pc = "closing_sessions"
    /\ \A s \in DOMAIN close_asked : conn[s] = "lost"
    /\ serve_pc' = "raised"
    /\ UNCHANGED <<now, env, servers, server_listening, paused, manage_pc,
                   start_queue, session_event, next_recalc, regVars>>
    /\ UNCHANGED <<bootVars, callVars>>
    /\ UNCHANGED <<cacheVars, subVars, restVars>>

\* ------------------------------------------- tx-hash lists and chain reorgs
TxTasks == 1..NumTxTasks

\* No list: the local tx_hashes of a call before its DB read.  (A call that
\* has returned keeps none: its list went to the caller.)
NoList == [gen |-> -1, rc |-> -1]

IdleTx == [pc |-> "idle", height |-> 0, snap |-> 0, data |-> NoList,
           fetches |-> 0, result |-> "none"]

\* The freshness test without the comparison: every list read is installed.
tx_is_fresh_always(snap) == TRUE

\* The freshness test that never passes.
tx_is_fresh_never(snap) == FALSE

\* tx_hashes_at_blockheight: "if reorg_count == self._reorg_count: break"
tx_is_fresh(snap) == snap = reorg_count

\* _merkle_branch, called by merkle_branch_for_tx_hash (and the other callers
\* of tx_hashes_at_blockheight) as soon as the list is there: the new
\* merkle_cache.  A block of 200 transactions or more gets a MerkleCache, built
\* on the list, unless it has one.
merkle_branch(h, list) ==
    IF TxCount[h] >= MerkleCacheMin /\ h \notin DOMAIN merkle_cache
    THEN Put(merkle_cache, h, list)
    ELSE merkle_cache

\* A call of tx_hashes_at_blockheight(h) up to its first await: a cache hit
\* returns the cached list, a miss records reorg_count and asks the DB.
\* found = FALSE: the caller does not find its transaction in the list and
\* raises before _merkle_branch.
TxCall(t, h, found) ==
    /\ tx[t].pc = "idle"
    /\ IF h \in DOMAIN tx_hashes_cache
       THEN /\ tx' = [tx EXCEPT ![t] = [pc |-> "idle", height |-> h,
                         snap |-> 0, data |-> NoList,
                         fetches |-> 0, result |-> "ok"]]
            /\ merkle_cache' = IF found THEN merkle_branch(h, tx_hashes_cache[h])
                               ELSE merkle_cache
       ELSE /\ tx' = [tx EXCEPT ![t] = [pc |-> "db", height |-> h,
                         snap |-> reorg_count, data |-> NoList,
                         fetches |-> 1, result |-> "none"]]
            /\ UNCHANGED merkle_cache
    /\ UNCHANGED <<reorg_count, reorg_pending, db_gen, tx_hashes_cache>>
    /\ UNCHANGED <<mgrVars, feeVars, histVars, subVars, restVars>>

\* db.tx_hashes_at_blockheight reads the list from the DB as it is then.
TxDbRead(t) ==
    /\ tx[t].pc = "db"
    /\ tx' = [tx EXCEPT ![t].pc = "dbdone",
                        ![t].data = [gen |-> db_gen, rc |-> reorg_count]]
    /\ UNCHANGED <<reorg_count, reorg_pending, db_gen, tx_hashes_cache, merkle_cache>>
    /\ UNCHANGED <<mgrVars, feeVars, histVars, subVars, restVars>>

\* db.tx_hashes_at_blockheight raises DBError: the call ends with BAD_REQUEST.
TxDbError(t) ==
    /\ tx[t].pc = "db"
    /\ tx' = [tx EXCEPT ![t].pc = "idle", ![t].snap = 0, ![t].result = "error"]
    /\ UNCHANGED <<reorg_count, reorg_pending, db_gen, tx_hashes_cache, merkle_cache>>
    /\ UNCHANGED <<mgrVars, feeVars, histVars, subVars, restVars>>

\* The await of the DB fetch returns: a fresh list is installed and returned
\* (and the caller goes on into _merkle_branch), another one is dropped and
\* fetched again under the new reorg_count.
TxDbReturn(t, found) ==
    /\ tx[t].pc = "dbdone"
    /\ IF tx_is_fresh(tx[t].snap)
       THEN /\ tx_hashes_cache' = Put(tx_hashes_cache, tx[t].height, tx[t].data)
            /\ tx' = [tx EXCEPT ![t].pc = "idle", ![t].snap = 0,
                                ![t].data = NoList, ![t].result = "ok"]
            /\ merkle_cache' = IF found THEN merkle_branch(tx[t].height, tx[t].data)
                               ELSE merkle_cache
       ELSE /\ tx' = [tx EXCEPT ![t].pc = "db", ![t].snap = reorg_count,
                                ![t].data = NoList, ![t].fetches = @ + 1]
            /\ UNCHANGED <<tx_hashes_cache, merkle_cache>>
    /\ UNCHANGED <<reorg_count, reorg_pending, db_gen>>
    /\ UNCHANGED <<mgrVars, feeVars, histVars, subVars, restVars>>

\* The block processor backs the chain up: the DB holds another chain, and
\* backed_up_event is pulsed.
BackedUp ==
    /\ db_gen < MaxReorgs
    /\ db_gen' = db_gen + 1
    /\ reorg_pending' = TRUE
    /\ UNCHANGED <<reorg_count, tx_hashes_cache, merkle_cache, tx>>
    /\ UNCHANGED <<mgrVars, feeVars, histVars, subVars, restVars>>

\* _handle_chain_reorgs without self._merkle_cache.clear().
merkle_cache_cleared_not == merkle_cache

\* _handle_chain_reorgs: self._merkle_cache.clear()
merkle_cache_cleared == <<>>

\* _handle_chain_reorgs wakes from backed_up_event.wait().
HandleChainReorgs ==
    /\ serve_pc = "running"
    /\ reorg_pending
    /\ reorg_pending' = FALSE
    /\ reorg_count' = reorg_count + 1
    /\ tx_hashes_cache' = <<>>
    /\ merkle_cache' = merkle_cache_cleared
    /\ UNCHANGED <<db_gen, tx>>
    /\ UNCHANGED <<mgrVars, feeVars, histVars, subVars, restVars>>

\* -------------------------------------------------------------- estimatefee
FeeCallers == 1..NumFeeCallers

IdleFee == [pc |-> "idle", key |-> <<0, "None">>, blockhash |-> NoHash,
            result |-> NoFeerate, via |-> "none", conc |-> FALSE]

FreeLock == [holder |-> NoCaller, waiters |-> <<>>]

\* estimatefee: the placeholder stored before the lock is awaited.
Placeholder == [blockhash |-> NoHash, feerate |-> NoFeerate]

\* The first test without the tip: any computed entry is returned.
fee_hit_any_tip(item) == item.blockhash # NoHash

\* estimatefee, before the lock:
\* "if blockhash and blockhash == self.session_mgr.bp.state.tip"
fee_hit(item) == item.blockhash # NoHash /\ item.blockhash = tip

\* The test under the lock left out: every caller asks the daemon.
fee_hit_locked_never(item) == FALSE

\* estimatefee, under the lock: "if blockhash == self.session_mgr.bp.state.tip"
fee_hit_locked(item) == item.blockhash = tip

\* A release that forgets the waiters.
release_forgets_waiters(waiters) == FreeLock

\* asyncio.Lock.release: the lock goes to the first waiter, if there is one.
release(waiters) ==
    IF waiters = <<>> THEN FreeLock
    ELSE [holder |-> Head(waiters), waiters |-> Tail(waiters)]

\* Caller c has acquired the lock of key k, with the callers of rest waiting
\* behind it: the body of "async with lock" up to its first await.  item is
\* the cache entry of k.
FeeLocked(c, k, item, rest, cc) ==
    IF fee_hit_locked(item)
    THEN /\ fee' = [fee EXCEPT ![c] = [pc |-> "done", key |-> k,
                       blockhash |-> item.blockhash, result |-> item.feerate,
                       via |-> "cache", conc |-> cc]]
         /\ fee_lock' = [fee_lock EXCEPT ![k] = release(rest)]
         /\ UNCHANGED daemon_calls
    ELSE /\ fee' = [fee EXCEPT ![c] = [pc |-> "daemon", key |-> k,
                       blockhash |-> tip, result |-> NoFeerate,
                       via |-> "daemon", conc |-> cc]]
         /\ fee_lock' = [fee_lock EXCEPT ![k] = [holder |-> c, waiters |-> rest]]
         /\ daemon_calls' = [daemon_calls EXCEPT ![k] = @ + 1]

\* A request estimatefee(number, mode) with bucketed key k, up to its first
\* await.  conc records that no earlier request for k had returned yet.
FeeCall(c, k) ==
    /\ fee[c].pc = "idle"
    /\ LET cc == \A d \in FeeCallers : ~(fee[d].pc = "done" /\ fee[d].key = k)
       IN IF k \in DOMAIN estimatefee_cache /\ fee_hit(estimatefee_cache[k])
          THEN /\ fee' = [fee EXCEPT ![c] = [pc |-> "done", key |-> k,
                             blockhash |-> estimatefee_cache[k].blockhash,
                             result |-> estimatefee_cache[k].feerate,
                             via |-> "cache", conc |-> cc]]
               /\ UNCHANGED <<estimatefee_cache, fee_lock, daemon_calls>>
          ELSE /\ estimatefee_cache' =
                     IF k \in DOMAIN estimatefee_cache THEN estimatefee_cache
                     ELSE Put(estimatefee_cache, k, Placeholder)
               /\ IF fee_lock[k] = FreeLock
                  THEN FeeLocked(c, k, estimatefee_cache'[k], <<>>, cc)
                  ELSE /\ fee' = [fee EXCEPT ![c] = [pc |-> "waiting", key |-> k,
                                     blockhash |-> NoHash, result |-> NoFeerate,
                                     via |-> "none", conc |-> cc]]
                       /\ fee_lock' = [fee_lock EXCEPT ![k].waiters = Append(@, c)]
                       /\ UNCHANGED daemon_calls
    /\ UNCHANGED <<tip, tip_changes>>
    /\ UNCHANGED <<mgrVars, txVars, histVars, subVars, restVars>>

\* A waiter that was handed the lock runs on.
FeeResume(c) ==
    /\ fee[c].pc = "waiting"
    /\ fee_lock[fee[c].key].holder = c
    /\ FeeLocked(c, fee[c].key, estimatefee_cache[fee[c].key],
                 fee_lock[fee[c].key].waiters, fee[c].conc)
    /\ UNCHANGED <<tip, tip_changes, estimatefee_cache>>
    /\ UNCHANGED <<mgrVars, txVars, histVars, subVars, restVars>>

\* The daemon answers estimatesmartfee: a feerate, an answer without the
\* 'feerate' key (NoFeerate: relayfee is asked for), or a DaemonError (Raised).
FeeDaemonReturn(c, out) ==
    /\ fee[c].pc = "daemon"
    /\ LET k == fee[c].key
       IN IF out = NoFeerate
          THEN /\ fee' = [fee EXCEPT ![c].pc = "relayfee"]
               /\ UNCHANGED <<estimatefee_cache, fee_lock>>
          ELSE IF out = Raised
          THEN /\ fee' = [fee EXCEPT ![c].pc = "done", ![c].result = Raised]
               /\ fee_lock' = [fee_lock EXCEPT ![k] = release(@.waiters)]
               /\ UNCHANGED estimatefee_cache
          ELSE /\ fee' = [fee EXCEPT ![c].pc = "done", ![c].result = out]
               /\ fee_lock' = [fee_lock EXCEPT ![k] = release(@.waiters)]
               /\ estimatefee_cache' = Put(estimatefee_cache, k,
                      [blockhash |-> fee[c].blockhash, feerate |-> out])
    /\ UNCHANGED <<tip, tip_changes, daemon_calls>>
    /\ UNCHANGED <<mgrVars, txVars, histVars, subVars, restVars>>

\* The daemon answers getnetworkinfo for relayfee(): a fee or a DaemonError.
FeeRelayReturn(c, out) ==
    /\ fee[c].pc = "relayfee"
    /\ LET k == fee[c].key
       IN IF out = Raised
          THEN /\ fee' = [fee EXCEPT ![c].pc = "done", ![c].result = Raised]
               /\ fee_lock' = [fee_lock EXCEPT ![k] = release(@.waiters)]
               /\ UNCHANGED estimatefee_cache
          ELSE /\ fee' = [fee EXCEPT ![c].pc = "done", ![c].result = out]
               /\ fee_lock' = [fee_lock EXCEPT ![k] = release(@.waiters)]
               /\ estimatefee_cache' = Put(estimatefee_cache, k,
                      [blockhash |-> fee[c].blockhash, feerate |-> out])
    /\ UNCHANGED <<tip, tip_changes, daemon_calls>>
    /\ UNCHANGED <<mgrVars, txVars, histVars, subVars, restVars>>

\* The block processor moves to another tip.
TipChange(t) ==
    /\ tip_changes < MaxTipChanges
    /\ t # tip
    /\ tip' = t
    /\ tip_changes' = tip_changes + 1
    /\ UNCHANGED <<estimatefee_cache, fee_lock, fee, daemon_calls>>
    /\ UNCHANGED <<mgrVars, txVars, histVars, subVars, restVars>>

\* ----------------------------------------------------------- history cache
HistTasks == 1..NumHistTasks

NoHist == [err |-> FALSE, len |-> -1, at |-> -1]

IdleHist == [pc |-> "idle", hashX |-> "none", data |-> NoHist,
             result |-> NoHist, via |-> "none"]

NoHsub == [hex |-> "None", height |-> NoHeight]

\* No key of any kind in a dispatch.
NoSets == [kd \in SubKinds |-> {}]

NoNotify == [height |-> NoHeight, touched |-> {}, sets |-> NoSets,
             height_changed |-> FALSE]

\* limited_history: limit = self.env.max_send // 99
history_limit == env.max_send \div 99

\* limited_history after the DB answered with a list of n entries read at
\* height a: the list, or the RPCError 'history too large'.
history_result(n, a) ==
    IF n >= history_limit THEN [err |-> TRUE, len |-> n, at |-> a]
    ELSE [err |-> FALSE, len |-> n, at |-> a]

\* A call limited_history(x) up to its first await: the cached result (an
\* error is raised), or a DB query.
HistCall(t, x) ==
    /\ hist[t].pc = "idle"
    /\ IF x \in DOMAIN history_cache
       THEN hist' = [hist EXCEPT ![t] = [pc |-> "idle", hashX |-> x, data |-> NoHist,
                        result |-> history_cache[x], via |-> "cache"]]
       ELSE hist' = [hist EXCEPT ![t] = [pc |-> "db", hashX |-> x, data |-> NoHist,
                        result |-> NoHist, via |-> "db"]]
    /\ UNCHANGED <<db_height, db_hist, touched_acc, history_cache, notified_height,
                   hsub_results, notify_pc, notify_args>>
    /\ UNCHANGED <<mgrVars, txVars, feeVars, subVars, restVars>>

\* db.limited_history(hashX, limit=limit) reads at most limit entries from the
\* DB as it is then.
HistDbRead(t) ==
    /\ hist[t].pc = "db"
    /\ hist' = [hist EXCEPT ![t].pc = "dbdone",
                   ![t].data = [err |-> FALSE,
                                len |-> Min(db_hist[hist[t].hashX].len, history_limit),
                                at |-> db_hist[hist[t].hashX].at]]
    /\ UNCHANGED <<db_height, db_hist, touched_acc, history_cache, notified_height,
                   hsub_results, notify_pc, notify_args>>
    /\ UNCHANGED <<mgrVars, txVars, feeVars, subVars, restVars>>

\* The await of the DB query returns: the result is stored in the cache.
HistDbReturn(t) ==
    /\ hist[t].pc = "dbdone"
    /\ LET r == history_result(hist[t].data.len, hist[t].data.at)
       IN /\ history_cache' = Put(history_cache, hist[t].hashX, r)
          /\ hist' = [hist EXCEPT ![t].pc = "idle", ![t].result = r]
    /\ UNCHANGED <<db_height, db_hist, touched_acc, notified_height,
                   hsub_results, notify_pc, notify_args>>
    /\ UNCHANGED <<mgrVars, txVars, feeVars, subVars, restVars>>

\* The LRU cache, full of other script hashes, evicts the entry of x.
Evict(x) ==
    /\ x \in DOMAIN history_cache
    /\ history_cache' = Drop(history_cache, {x})
    /\ UNCHANGED <<db_height, db_hist, touched_acc, hist, notified_height,
                   hsub_results, notify_pc, notify_args>>
    /\ UNCHANGED <<mgrVars, txVars, feeVars, subVars, restVars>>

\* The block processor indexes a block touching the script hashes of T; the
\* history of each of them grows to n entries.
IndexBlock(T, n) ==
    /\ db_height < MaxHeight
    /\ T # {}
    /\ \A x \in T : n >= db_hist[x].len
    /\ db_height' = db_height + 1
    /\ db_hist' = [x \in HashXs |->
           IF x \in T THEN [len |-> n, at |-> db_height + 1] ELSE db_hist[x]]
    /\ touched_acc' = touched_acc \cup T
    /\ UNCHANGED <<history_cache, hist, notified_height, hsub_results, notify_pc,
                   notify_args>>
    /\ UNCHANGED <<mgrVars, txVars, feeVars, subVars, restVars>>

\* The notifier (not part of this module's source) calls _notify_sessions
\* again only when its previous call returned.
NotifierIdle == notify_pc = "idle"

\* A join that does not wait for the tasks.
join_done_at_once == TRUE

\* TaskGroup.join: every task of the group ended.
join_done == \A s \in DOMAIN ntask : ntask[s].pc = "idle"

\* _notify_sessions without the invalidation of the history cache.
invalidated_nothing(cache, touched) == cache

\* _notify_sessions: "for hashX in set(cache).intersection(touched):
\* del cache[hashX]"
invalidated(cache, touched) == Drop(cache, DOMAIN cache \cap touched)

\* The sessions a dispatch spawns a notify task for: those of self.sessions
\* that are ElectrumX sessions (the notify of a LocalRPC session does nothing).
NotifyTargets == Registered \cap DOMAIN ntask

\* _notify_sessions: "async with TaskGroup() as group: for session in
\* self.sessions: await group.spawn(session.notify, touched, height_changed,
\* ...)": every target gets a task holding the arguments; the group is then
\* joined.  Without a target the group is left at once.
SpawnNotify(a) ==
    /\ ntask' = [s \in DOMAIN ntask |->
                   IF s \in NotifyTargets /\ ntask[s].pc = "idle"
                   THEN [IdleNotify EXCEPT !.pc = "start", !.d = dispatches + 1,
                            !.height_changed = a.height_changed,
                            !.touched = a.touched, !.sets = a.sets]
                   ELSE ntask[s]]
    /\ dispatches' = IF NotifyTargets = {} THEN dispatches ELSE dispatches + 1
    /\ notify_pc' = IF NotifyTargets = {} THEN "idle" ELSE "join"
    /\ notify_args' = IF NotifyTargets = {} THEN NoNotify ELSE a

\* The notifier calls _notify_sessions(height, touched, assets, q, h, b, f,
\* v, qv) with the DB's height, what was touched since its last call (M:
\* touched in the mempool) and the keys A touched of each other kind.  With a
\* new height it suspends in _refresh_hsub_results; otherwise it spawns the
\* notify tasks right away.  Calls do not overlap: the notifier awaits each.
Dispatch(M, A) ==
    /\ serve_pc = "running"
    /\ NotifierIdle
    /\ DOMAIN ntask # {} => dispatches < MaxDispatches
    /\ touched_acc' = {}
    /\ LET a == [height |-> db_height, touched |-> touched_acc \cup M, sets |-> A,
                 height_changed |-> db_height # notified_height]
       IN IF a.height_changed
          THEN /\ notify_pc' = "refresh"
               /\ notify_args' = a
               /\ UNCHANGED <<ntask, dispatches>>
          ELSE SpawnNotify(a)
    /\ UNCHANGED <<db_height, db_hist, history_cache, hist, notified_height,
                   hsub_results>>
    /\ UNCHANGED <<hashX_subs, mempool_statuses, subscribe_headers, mempool, sh, sent,
                   last_computed, stable>>
    /\ UNCHANGED <<mgrVars, txVars, feeVars, subVars, reapVars>>

\* A dispatch in which only script hashes were touched.
NotifyBegin(M) == Dispatch(M, NoSets)

\* _notify_sessions: raw_header returned; hsub_results and notified_height
\* are refreshed, the touched entries leave the history cache, and the notify
\* tasks are spawned.
NotifyRefreshed ==
    /\ notify_pc = "refresh"
    /\ hsub_results' = hsub_of(notify_args.height, db_height)
    /\ notified_height' = hsub_of(notify_args.height, db_height).height
    /\ history_cache' = invalidated(history_cache, notify_args.touched)
    /\ SpawnNotify(notify_args)
    /\ UNCHANGED <<db_height, db_hist, touched_acc, hist>>
    /\ UNCHANGED <<hashX_subs, mempool_statuses, subscribe_headers, mempool, sh, sent,
                   last_computed, stable>>
    /\ UNCHANGED <<mgrVars, txVars, feeVars, subVars, reapVars>>

\* _notify_sessions leaves its TaskGroup when every notify task ended.
NotifyJoin ==
    /\ notify_pc = "join"
    /\ join_done
    /\ notify_pc' = "idle"
    /\ notify_args' = NoNotify
    /\ UNCHANGED <<db_height, db_hist, touched_acc, history_cache, hist,
                   notified_height, hsub_results>>
    /\ UNCHANGED <<mgrVars, txVars, feeVars, subVars, restVars>>

\* ------------------------------------------------- set-based subscriptions
\* The sessions that have subscription sets (the ElectrumX sessions).
SubSessions == DOMAIN set_subs

\* check_asset / check_h160 (and the qualifier test of the
\* restricted-associations methods): does the request pass?
valid_key(kd, key) ==
    IF kd = "h160_tag_subs" THEN Len(key) = 40
    ELSE /\ Len(key) > 0
         /\ Len(key) <= 32
         /\ kd = "qualifier_validator_subs" => key = "#Q"

\* The names a client can send to the methods of kind kd.
KeysOf(kd) == IF kd = "h160_tag_subs" THEN H160Names ELSE AssetNames

\* What the set holds for a request key: bytes.fromhex(h160) for an h160
\* (written as its lower-case hex), the name itself otherwise.
stored_key(kd, key) ==
    IF kd = "h160_tag_subs" /\ key = H160Upper THEN H160Lower ELSE key

\* set.discard(x): the new set, and the value the call returns (None).
set_discard(S, x) == [set |-> S \ {x}, ret |-> "None"]

\* <kind>_subscribe up to its await: the checks, then the status is computed.
SubscribeCall(s, kd, key) ==
    /\ s \in SubSessions
    /\ conn[s] = "open"
    /\ valid_key(kd, key)
    /\ Cardinality({p \in sub_pending : p[1] = s}) < MaxPendingSubs
    /\ sub_pending' = sub_pending \cup {<<s, kd, key>>}
    /\ UNCHANGED <<set_subs, unsub_ret, supplied>>
    /\ UNCHANGED <<mgrVars, cacheVars, restVars>>

\* <kind>_subscribe: the status is there; the key enters the set.
SubscribeDone(s, kd, key) ==
    /\ <<s, kd, key>> \in sub_pending
    /\ sub_pending' = sub_pending \ {<<s, kd, key>>}
    /\ set_subs' = [set_subs EXCEPT ![s][kd] = @ \cup {stored_key(kd, key)}]
    /\ supplied' = IF s \in DOMAIN supplied
                   THEN [supplied EXCEPT ![s][kd] = @ \cup {key}]
                   ELSE supplied
    /\ UNCHANGED unsub_ret
    /\ UNCHANGED <<mgrVars, cacheVars, restVars>>

\* <kind>_unsubscribe: BAD_REQUEST for a key that fails the checks, otherwise
\* "return self.<kind>.discard(key) is not None".
Unsubscribe(s, kd, key) ==
    /\ s \in SubSessions
    /\ conn[s] = "open"
    /\ IF ~valid_key(kd, key)
       THEN /\ unsub_ret' = Put(unsub_ret, s, "BAD_REQUEST")
            /\ UNCHANGED <<set_subs, supplied>>
       ELSE LET d == set_discard(set_subs[s][kd], stored_key(kd, key))
            IN /\ set_subs' = [set_subs EXCEPT ![s][kd] = d.set]
               /\ supplied' = IF s \in DOMAIN supplied
                              THEN [supplied EXCEPT ![s][kd] =
                                      {k \in @ : stored_key(kd, k)
                                                   # stored_key(kd, key)}]
                              ELSE supplied
               /\ unsub_ret' = Put(unsub_ret, s,
                                   IF d.ret # "None" THEN "True" ELSE "False")
    /\ UNCHANGED sub_pending
    /\ UNCHANGED <<mgrVars, cacheVars, restVars>>

\* ------------------------------------------------ scripthash subscriptions
\* The limited_history calls of the notify tasks, one slot per session.
NotifyHist(s) == NumHistTasks + 1 + s

NotifyHistTasks == {NotifyHist(s) : s \in 0..(MaxSidNotify - 1)}

\* What clients send as script hash: hex strings of which two end in the
\* bytes of x1, one in those of x2, and one that is no 32-byte hex string.
Scripthashes == {"ax1", "bx1", "ax2", "bad"}

\* scripthash_to_hashX: the tail of the hex string (hex_str_to_hash reverses
\* the bytes and the first HASHX_LEN of them are kept), or BAD_REQUEST.
scripthash_to_hashX(a) ==
    IF Len(a) # 3 THEN "BAD_REQUEST"
    ELSE IF a \in {"ax1", "bx1"} THEN "x1" ELSE "x2"

\* address_status: the digest of the history entries followed by the mempool
\* summaries, None when both are empty.  A history is known by its length and
\* the height it was read at, the mempool part by its number of transactions.
status_of(r, m) ==
    IF r.len = 0 /\ m = 0 THEN NoStatus ELSE [len |-> r.len, at |-> r.at, m |-> m]

\* address_status without the pop of its else branch.
mempool_status_update_no_pop(ms, x, st, m) == IF m > 0 THEN Put(ms, x, st) ELSE ms

\* address_status: "if mempool: self.mempool_statuses[hashX] = status
\* else: self.mempool_statuses.pop(hashX, None)"
mempool_status_update(ms, x, st, m) == IF m > 0 THEN Put(ms, x, st) ELSE Drop(ms, {x})

\* unsubscribe_hashX without the pop from mempool_statuses.
unsubscribe_mempool_kept(ms, x) == ms

\* unsubscribe_hashX: self.mempool_statuses.pop(hashX, None)
unsubscribe_mempool(ms, x) == Drop(ms, {x})

\* A pop that returns the alias and leaves the dict as it is.
hashX_subs_pop_kept(subs, x) ==
    [subs |-> subs, ret |-> IF x \in DOMAIN subs THEN subs[x] ELSE "None"]

\* unsubscribe_hashX: return self.hashX_subs.pop(hashX, None): the new dict
\* and the value returned, "None" when the hashX was no key.
hashX_subs_pop(subs, x) ==
    [subs |-> Drop(subs, {x}),
     ret |-> IF x \in DOMAIN subs THEN subs[x] ELSE "None"]

\* A store that keeps the alias of an earlier subscription.
subs_store_first_alias(subs, x, a) == IF x \in DOMAIN subs THEN subs ELSE Put(subs, x, a)

\* hashX_subscribe: self.hashX_subs[hashX] = alias
subs_store(subs, x, a) == Put(subs, x, a)

\* The hashXs session s unsubscribed from and did not subscribe to since.
unsub_of(s) == IF s \in DOMAIN unsub_done THEN unsub_done[s] ELSE {}

\* unsub_done with S as the set of session s (no entry for an empty set).
unsub_mark(s, S) == IF S = {} THEN Drop(unsub_done, {s}) ELSE Put(unsub_done, s, S)

\* The DB history and the mempool of x as they are now.
world(x) == <<db_hist[x], mempool[x]>>

NoStable == [set |-> FALSE, world |-> <<[len |-> -1, at |-> -1], -1>>, status |-> NoStatus]

IdleSh == [pc |-> "idle", s |-> -1, alias |-> "none", x |-> "none",
           world0 |-> <<[len |-> -1, at |-> -1], -1>>, out |-> "none"]

\* address_status(x) of session s goes on after limited_history returned the
\* history r: the status is computed from r and the mempool summaries and
\* mempool_statuses is updated.  w0 is the DB and mempool state the call
\* started in.
AddressStatusDone(s, x, r, w0) ==
    LET st == status_of(r, mempool[x])
    IN /\ mempool_statuses' = [mempool_statuses EXCEPT
                                  ![s] = mempool_status_update(@, x, st, mempool[x])]
       /\ last_computed' = [last_computed EXCEPT
                               ![s] = Put(@, x, [status |-> IF mempool[x] > 0 THEN st
                                                            ELSE NoStatus,
                                                 m |-> mempool[x]])]
       /\ stable' = IF x \in DOMAIN stable /\ w0 = world(x)
                    THEN [stable EXCEPT ![x] = [set |-> TRUE, world |-> w0, status |-> st]]
                    ELSE stable

\* scripthash.subscribe(a) of session s up to its first await:
\* scripthash_to_hashX, then hashX_subscribe -> address_status ->
\* limited_history, which answers from the cache or queries the DB.  With a
\* cached history the handler runs to its end without suspending.
ShSubscribe(t, s, a) ==
    /\ sh[t].pc = "idle" /\ hist[t].pc = "idle"
    /\ s \in DOMAIN hashX_subs /\ conn[s] = "open"
    /\ LET x == scripthash_to_hashX(a)
           call == [IdleSh EXCEPT !.s = s, !.alias = a, !.x = x]
       IN IF x = "BAD_REQUEST"
          THEN /\ sh' = [sh EXCEPT ![t] = [IdleSh EXCEPT !.out = "BAD_REQUEST"]]
               /\ UNCHANGED <<hist, hashX_subs, mempool_statuses, last_computed, stable,
                            unsub_done>>
          ELSE IF x \notin DOMAIN history_cache
          THEN /\ sh' = [sh EXCEPT ![t] = [call EXCEPT !.pc = "db", !.world0 = world(x)]]
               /\ hist' = [hist EXCEPT ![t] = [IdleHist EXCEPT !.pc = "db", !.hashX = x,
                                                               !.via = "db"]]
               /\ UNCHANGED <<hashX_subs, mempool_statuses, last_computed, stable,
                            unsub_done>>
          ELSE IF history_cache[x].err
          THEN /\ sh' = [sh EXCEPT ![t] = [IdleSh EXCEPT !.out = "BAD_REQUEST"]]
               /\ UNCHANGED <<hist, hashX_subs, mempool_statuses, last_computed, stable,
                            unsub_done>>
          ELSE /\ AddressStatusDone(s, x, history_cache[x], world(x))
               /\ hashX_subs' = [hashX_subs EXCEPT ![s] = subs_store(@, x, a)]
               /\ unsub_done' = unsub_mark(s, unsub_of(s) \ {x})
               /\ sh' = [sh EXCEPT ![t] = [IdleSh EXCEPT !.out = "ok"]]
               /\ UNCHANGED hist
    /\ UNCHANGED <<db_height, db_hist, touched_acc, history_cache, notified_height,
                   hsub_results, notify_pc, notify_args>>
    /\ UNCHANGED <<subscribe_headers, mempool, ntask, sent, dispatches>>
    /\ UNCHANGED <<now, env, lifeVars, session_event, next_recalc, regVars, bootVars,
                   sv, remove_out, disconnect_out>>
    /\ UNCHANGED <<txVars, feeVars, subVars, reapVars>>

\* The DB query of a subscribe request returns: limited_history stores its
\* result and returns or raises it, and the handler runs to its end:
\* "self.hashX_subs[hashX] = alias" once address_status succeeded.
ShDbReturn(t) ==
    /\ sh[t].pc = "db" /\ hist[t].pc = "dbdone"
    /\ LET r == history_result(hist[t].data.len, hist[t].data.at)
           x == sh[t].x
           s == sh[t].s
       IN /\ history_cache' = Put(history_cache, x, r)
          /\ hist' = [hist EXCEPT ![t] = IdleHist]
          /\ IF r.err
             THEN /\ sh' = [sh EXCEPT ![t] = [IdleSh EXCEPT !.out = "BAD_REQUEST"]]
                  /\ UNCHANGED <<hashX_subs, mempool_statuses, last_computed, stable,
                                 unsub_done>>
             ELSE /\ AddressStatusDone(s, x, r, sh[t].world0)
                  /\ hashX_subs' = [hashX_subs EXCEPT ![s] = subs_store(@, x, sh[t].alias)]
                  /\ unsub_done' = unsub_mark(s, unsub_of(s) \ {x})
                  /\ sh' = [sh EXCEPT ![t] = [IdleSh EXCEPT !.out = "ok"]]
    /\ UNCHANGED <<db_height, db_hist, touched_acc, notified_height,
                   hsub_results, notify_pc, notify_args>>
    /\ UNCHANGED <<subscribe_headers, mempool, ntask, sent, dispatches>>
    /\ UNCHANGED <<now, env, lifeVars, session_event, next_recalc, regVars, bootVars,
                   sv, remove_out, disconnect_out>>
    /\ UNCHANGED <<txVars, feeVars, subVars, reapVars>>

\* scripthash.unsubscribe(a) of session s: scripthash_to_hashX, then
\* "return self.unsubscribe_hashX(hashX) is not None".
ShUnsubscribe(s, a) ==
    /\ s \in DOMAIN hashX_subs /\ conn[s] = "open"
    /\ LET x == scripthash_to_hashX(a)
           p == hashX_subs_pop(hashX_subs[s], x)
       IN IF x = "BAD_REQUEST"
          THEN /\ unsub_ret' = Put(unsub_ret, s, "BAD_REQUEST")
               /\ UNCHANGED <<hashX_subs, mempool_statuses, last_computed, unsub_done>>
          ELSE /\ mempool_statuses' = [mempool_statuses EXCEPT
                                          ![s] = unsubscribe_mempool(@, x)]
               /\ hashX_subs' = [hashX_subs EXCEPT ![s] = p.subs]
               /\ last_computed' = [last_computed EXCEPT ![s] = Drop(@, {x})]
               /\ unsub_done' = unsub_mark(s, unsub_of(s) \cup {x})
               /\ unsub_ret' = Put(unsub_ret, s,
                                   IF p.ret # "None" THEN "True" ELSE "False")
    /\ UNCHANGED <<set_subs, sub_pending, supplied>>
    /\ UNCHANGED <<subscribe_headers, mempool, sh, ntask, sent, dispatches, stable>>
    /\ UNCHANGED <<now, env, lifeVars, session_event, next_recalc, regVars, bootVars,
                   sv, remove_out, disconnect_out>>
    /\ UNCHANGED <<cacheVars, reapVars>>

\* A transaction of x enters or leaves the mempool.
MempoolChange(x, n) ==
    /\ n \in 0..MaxMempool
    /\ mempool[x] # n
    /\ mempool' = [mempool EXCEPT ![x] = n]
    /\ UNCHANGED <<hashX_subs, mempool_statuses, subscribe_headers, sh, ntask, sent,
                   dispatches, last_computed, stable>>
    /\ UNCHANGED <<mgrVars, cacheVars, subVars, reapVars>>

\* blockchain.headers.subscribe: self.subscribe_headers = True
HeadersSubscribe(s) ==
    /\ s \in DOMAIN subscribe_headers /\ conn[s] = "open"
    /\ ~subscribe_headers[s]
    /\ subscribe_headers' = [subscribe_headers EXCEPT ![s] = TRUE]
    /\ UNCHANGED <<hashX_subs, mempool_statuses, mempool, sh, ntask, sent, dispatches,
                   last_computed, stable>>
    /\ UNCHANGED <<mgrVars, cacheVars, subVars, reapVars>>

\* ---------------------------------------------------------- ElectrumX.notify
\* The order in which notify goes through the subscription sets.
KindOrder == <<"asset_subs", "qualifier_tag_subs", "h160_tag_subs", "broadcast_subs",
               "frozen_subs", "validator_subs", "qualifier_validator_subs">>

\* The key sent for an element of the set of kind kd: the element (an h160
\* as its hex), but f'#{asset}' for the restricted associations.
notified_key(kd, key) == IF kd = "qualifier_validator_subs" THEN "#" \o key ELSE key

\* A notification sent by the notify task of dispatch d; old and src say what
\* a scripthash notification came from.
Note(d, hc, method, key, param, height, status, old, src) ==
    [d |-> d, hc |-> hc, method |-> method, key |-> key, param |-> param,
     height |-> height, status |-> status, old |-> old, src |-> src]

MinOf(S) == CHOOSE i \in S : \A j \in S : i <= j

\* changed[alias] = status on the dict changed, which keeps insertion order.
dict_set(changed, e) ==
    IF \E i \in 1..Len(changed) : changed[i].alias = e.alias
    THEN [i \in 1..Len(changed) |-> IF changed[i].alias = e.alias THEN e ELSE changed[i]]
    ELSE Append(changed, e)

\* The input of the i-th kind without the intersection.
touched_of_kind_unfiltered(s, i) == ntask[s].sets[KindOrder[i]]

\* notify: "input.intersection(self.<kind>_subs)" for the i-th kind.
touched_of_kind(s, i) == ntask[s].sets[KindOrder[i]] \cap set_subs[s][KindOrder[i]]

\* notify: "if touched or (height_changed and self.mempool_statuses)"
\* without the second alternative.
scripthash_part_touched_only(tch, hc, ms) == tch # {}

\* notify: "if touched or (height_changed and self.mempool_statuses)"
scripthash_part(tch, hc, ms) == tch # {} \/ (hc /\ DOMAIN ms # {})

\* The comparison of the mempool loop that lets every status through.
status_differs_always(st, old) == TRUE

\* notify: "if status != old_status"
status_differs(st, old) == st # old

\* The notify task of session s starts: "if height_changed and
\* self.subscribe_headers", the header notification goes out with the
\* manager's hsub_results.
NotifyStart(s) ==
    /\ s \in DOMAIN ntask /\ ntask[s].pc = "start"
    /\ sent' = [sent EXCEPT ![s] =
                  IF ntask[s].height_changed /\ subscribe_headers[s]
                  THEN Append(@, Note(ntask[s].d, TRUE, "headers", "", hsub_results.hex,
                                      hsub_results.height, NoStatus, NoStatus, "none"))
                  ELSE @]
    /\ ntask' = [ntask EXCEPT ![s].pc = "sets", ![s].k = 1]
    /\ UNCHANGED <<hashX_subs, mempool_statuses, subscribe_headers, mempool, sh,
                   dispatches, last_computed, stable>>
    /\ UNCHANGED <<mgrVars, cacheVars, subVars, reapVars>>

\* The task goes on to the next kind whose input meets the session's set and
\* sends a notification for every element of the intersection (the awaits of
\* the status of each element are not told apart).  After the last kind it
\* reaches the script hashes: "touched = touched.intersection(
\* self.hashX_subs.keys())", and ends unless there is something to do.
NotifyKind(s) ==
    /\ s \in DOMAIN ntask /\ ntask[s].pc = "sets"
    /\ LET ks == {i \in ntask[s].k..7 : touched_of_kind(s, i) # {}}
       IN IF ks # {}
          THEN LET i == MinOf(ks)
                   kd == KindOrder[i]
                   keys == SeqOf(touched_of_kind(s, i))
               IN /\ sent' = [sent EXCEPT ![s] = @ \o
                        [j \in 1..Len(keys) |->
                            Note(ntask[s].d, ntask[s].height_changed, kd, keys[j],
                                 notified_key(kd, keys[j]), NoHeight, NoStatus,
                                 NoStatus, "set")]]
                  /\ ntask' = [ntask EXCEPT ![s].k = i + 1]
          ELSE LET tch == ntask[s].touched \cap DOMAIN hashX_subs[s]
               IN /\ UNCHANGED sent
                  /\ IF scripthash_part(tch, ntask[s].height_changed,
                                        mempool_statuses[s])
                     THEN ntask' = [ntask EXCEPT ![s].pc = "touched", ![s].k = 8,
                                       ![s].touched = tch, ![s].todo = tch]
                     ELSE ntask' = [ntask EXCEPT ![s] = IdleNotify]
    /\ UNCHANGED <<hashX_subs, mempool_statuses, subscribe_headers, mempool, sh,
                   dispatches, last_computed, stable>>
    /\ UNCHANGED <<mgrVars, cacheVars, subVars, reapVars>>

\* subscription_address_status(x) of the notify task of s goes on after
\* limited_history gave r: an RPCError discards the subscription and the
\* status is None; otherwise address_status ends.  In the loop over touched
\* the status always enters changed, in the loop over the copy of
\* mempool_statuses only when it differs from the copied one.
ItemDone(s, x, alias, r, loop) ==
    LET st == IF r.err THEN NoStatus ELSE status_of(r, mempool[x])
        old == IF loop = "mempool" THEN ntask[s].mtodo[x]
               ELSE IF x \in DOMAIN mempool_statuses[s] THEN mempool_statuses[s][x]
               ELSE NoStatus
        e == [x |-> x, alias |-> alias, status |-> st, old |-> old, src |-> loop]
    IN /\ IF r.err
          THEN /\ mempool_statuses' = [mempool_statuses EXCEPT
                                          ![s] = unsubscribe_mempool(@, x)]
               /\ hashX_subs' = [hashX_subs EXCEPT ![s] = hashX_subs_pop(@, x).subs]
               /\ last_computed' = [last_computed EXCEPT ![s] = Drop(@, {x})]
               /\ UNCHANGED stable
          ELSE /\ AddressStatusDone(s, x, r, NoStable.world)
               /\ UNCHANGED hashX_subs
       /\ ntask' = [ntask EXCEPT
                       ![s].changed = IF loop = "touched" \/ status_differs(st, old)
                                      THEN dict_set(@, e) ELSE @,
                       ![s].cur = "none", ![s].alias = "none",
                       ![s].todo = @ \ {x},
                       ![s].mtodo = Drop(@, {x})]

\* The next hashX of the loop the task is in: "alias = self.hashX_subs.get(
\* hashX)"; "if alias:" its status is computed, at once when limited_history
\* has the history cached, else after a DB query.
NotifyItem(s, x) ==
    /\ s \in DOMAIN ntask /\ ntask[s].pc \in {"touched", "mempool"}
    /\ ntask[s].cur = "none"
    /\ x \in (IF ntask[s].pc = "touched" THEN ntask[s].todo ELSE DOMAIN ntask[s].mtodo)
    /\ IF x \notin DOMAIN hashX_subs[s]
       THEN /\ ntask' = [ntask EXCEPT ![s].todo = @ \ {x}, ![s].mtodo = Drop(@, {x}),
                            ![s].skipped = @ \cup {x}]
            /\ UNCHANGED <<hist, history_cache, hashX_subs, mempool_statuses,
                           last_computed, stable>>
       ELSE IF x \in DOMAIN history_cache
       THEN /\ ItemDone(s, x, hashX_subs[s][x], history_cache[x], ntask[s].pc)
            /\ UNCHANGED <<hist, history_cache>>
       ELSE /\ ntask' = [ntask EXCEPT ![s].cur = x, ![s].alias = hashX_subs[s][x]]
            /\ hist' = [hist EXCEPT ![NotifyHist(s)] =
                           [IdleHist EXCEPT !.pc = "db", !.hashX = x, !.via = "db"]]
            /\ UNCHANGED <<history_cache, hashX_subs, mempool_statuses,
                           last_computed, stable>>
    /\ UNCHANGED <<db_height, db_hist, touched_acc, notified_height,
                   hsub_results, notify_pc, notify_args>>
    /\ UNCHANGED <<subscribe_headers, mempool, sh, sent, dispatches>>
    /\ UNCHANGED <<mgrVars, txVars, feeVars, subVars, reapVars>>

\* The DB query of the task's limited_history returns.
NotifyDbReturn(s) ==
    /\ s \in DOMAIN ntask /\ ntask[s].cur # "none"
    /\ hist[NotifyHist(s)].pc = "dbdone"
    /\ LET r == history_result(hist[NotifyHist(s)].data.len, hist[NotifyHist(s)].data.at)
       IN /\ history_cache' = Put(history_cache, ntask[s].cur, r)
          /\ hist' = [hist EXCEPT ![NotifyHist(s)] = IdleHist]
          /\ ItemDone(s, ntask[s].cur, ntask[s].alias, r, ntask[s].pc)
    /\ UNCHANGED <<db_height, db_hist, touched_acc, notified_height,
                   hsub_results, notify_pc, notify_args>>
    /\ UNCHANGED <<subscribe_headers, mempool, sh, sent, dispatches>>
    /\ UNCHANGED <<mgrVars, txVars, feeVars, subVars, reapVars>>

\* The loop over touched ended: "mempool_statuses =
\* self.mempool_statuses.copy()".
NotifyCopy(s) ==
    /\ s \in DOMAIN ntask /\ ntask[s].pc = "touched"
    /\ ntask[s].todo = {} /\ ntask[s].cur = "none"
    /\ ntask' = [ntask EXCEPT ![s].pc = "mempool", ![s].mtodo = mempool_statuses[s]]
    /\ UNCHANGED <<hashX_subs, mempool_statuses, subscribe_headers, mempool, sh, sent,
                   dispatches, last_computed, stable>>
    /\ UNCHANGED <<mgrVars, cacheVars, subVars, reapVars>>

\* Both loops ended: "for alias, status in changed.items(): await
\* self.send_notification(method, (alias, status))", and the task ends.
NotifySend(s) ==
    /\ s \in DOMAIN ntask /\ ntask[s].pc = "mempool"
    /\ DOMAIN ntask[s].mtodo = {} /\ ntask[s].cur = "none"
    /\ sent' = [sent EXCEPT ![s] = @ \o
                  [j \in 1..Len(ntask[s].changed) |->
                      Note(ntask[s].d, ntask[s].height_changed, "scripthash",
                           ntask[s].changed[j].x, ntask[s].changed[j].alias, NoHeight,
                           ntask[s].changed[j].status, ntask[s].changed[j].old,
                           ntask[s].changed[j].src)]]
    /\ ntask' = [ntask EXCEPT ![s] = IdleNotify]
    /\ UNCHANGED <<hashX_subs, mempool_statuses, subscribe_headers, mempool, sh,
                   dispatches, last_computed, stable>>
    /\ UNCHANGED <<mgrVars, cacheVars, subVars, reapVars>>

\* The steps of the notify task of session s.
NotifyTask(s) ==
    \/ NotifyStart(s)
    \/ NotifyKind(s)
    \/ \E x \in HashXs : NotifyItem(s, x)
    \/ HistDbRead(NotifyHist(s))
    \/ NotifyDbReturn(s)
    \/ NotifyCopy(s)
    \/ NotifySend(s)

\* ------------------------------------------------------- the stale reaper
\* last_recv is kept by the transport: the session's start time, then the
\* time of the last data received.  It is tracked only in the specification
\* of the reaper (reap_pc # "off"); elsewhere the reaper task is left out.

\* _clear_stale_sessions: await sleep(60), in ticks.
SleepTicks == 1

\* _disconnect_sessions: force_after=1.0, in tenths of a second.
ForceAfter == 10

\* The staleness test with the cutoff itself counted as stale.
is_stale_at_cutoff(recv, cutoff) == recv <= cutoff

\* _clear_stale_sessions: "session.last_recv < stale_cutoff"
is_stale(recv, cutoff) == recv < cutoff

\* _clear_stale_sessions: stale_cutoff = time.time() - self.env.session_timeout
stale_cutoff == now - env.session_timeout

\* _clear_stale_sessions: the list stale_sessions, over self.sessions.
stale_sessions == {s \in Registered : is_stale(last_recv[s], stale_cutoff)}

\* Data arrives on the connection of session s.
DataReceived(s) ==
    /\ reap_pc # "off"
    /\ s \in SessionObjects
    /\ conn[s] = "open"
    /\ s \notin DOMAIN close_asked
    /\ last_recv[s] < now
    /\ last_recv' = [last_recv EXCEPT ![s] = now]
    /\ UNCHANGED <<reap_pc, reap_wake, close_asked>>
    /\ UNCHANGED <<mgrVars, cacheVars, subVars, shVars>>

\* _clear_stale_sessions wakes from sleep(60) and calls _disconnect_sessions,
\* which spawns close(force_after=1.0) for every stale session and then waits
\* for the closes; with nothing stale it goes back to sleep at once.
ReapWake ==
    /\ reap_pc = "sleep"
    /\ now >= reap_wake
    /\ close_asked' = [s \in DOMAIN close_asked \cup stale_sessions |->
                         IF s \in stale_sessions THEN ForceAfter ELSE close_asked[s]]
    /\ IF stale_sessions # {}
       THEN /\ reap_pc' = "closing"
            /\ UNCHANGED reap_wake
       ELSE /\ reap_wake' = now + SleepTicks
            /\ UNCHANGED reap_pc
    /\ UNCHANGED last_recv
    /\ UNCHANGED <<mgrVars, cacheVars, subVars, shVars>>

\* session.close(force_after=1.0) ends with connection_lost, at the latest
\* one second later when the transport is aborted; a second is no tick.
ReapSessionClosed(s) ==
    /\ reap_pc = "closing"
    /\ s \in DOMAIN close_asked
    /\ ConnectionLost(s)

\* Every close returned: the TaskGroup is left and the reaper sleeps again.
ReapSleep ==
    /\ reap_pc = "closing"
    /\ \A s \in DOMAIN close_asked : conn[s] = "lost"
    /\ reap_pc' = "sleep"
    /\ reap_wake' = now + SleepTicks
    /\ UNCHANGED <<last_recv, close_asked>>
    /\ UNCHANGED <<mgrVars, cacheVars, subVars, shVars>>

\* A tick passes while the reaper sleeps: its timer fires before time goes on.
ReapTick ==
    /\ reap_pc = "sleep"
    /\ now < reap_wake
    /\ Tick(1)

\* ------------------------------------------------------------------ specs
vars == <<mgrVars, cacheVars, subVars, restVars>>

\* The caches and the tasks using them after SessionManager.__init__, with
\* the DB at height 0 of its first chain and the histories dbh; when serve has
\* started the notifications, hsub_results and notified_height are those of
\* the DB height.
InitCachesAt(dbh, started, watched, tracked) ==
    /\ reorg_count = 0
    /\ reorg_pending = FALSE
    /\ db_gen = 0
    /\ tx_hashes_cache = <<>>
    /\ merkle_cache = <<>>
    /\ tx = [t \in TxTasks |-> IdleTx]
    /\ tip = "T1"
    /\ tip_changes = 0
    /\ estimatefee_cache = <<>>
    /\ fee_lock = [k \in FeeKeys |-> FreeLock]
    /\ fee = [c \in FeeCallers |-> IdleFee]
    /\ daemon_calls = [k \in FeeKeys |-> 0]
    /\ db_height = 0
    /\ db_hist = dbh
    /\ touched_acc = {}
    /\ history_cache = <<>>
    /\ hist = [t \in HistTasks \cup NotifyHistTasks |-> IdleHist]
    /\ notified_height = IF started THEN 0 ELSE NoHeight
    /\ hsub_results = IF started THEN hsub_of(0, 0) ELSE NoHsub
    /\ notify_pc = "idle"
    /\ notify_args = NoNotify
    /\ set_subs = <<>>
    /\ supplied = [s \in tracked |-> [kd \in SubKinds |-> {}]]
    /\ sub_pending = {}
    /\ unsub_ret = <<>>
    /\ hashX_subs = <<>>
    /\ mempool_statuses = <<>>
    /\ subscribe_headers = <<>>
    /\ mempool = [x \in HashXs |-> 0]
    /\ sh = [t \in HistTasks |-> IdleSh]
    /\ ntask = <<>>
    /\ sent = <<>>
    /\ dispatches = 0
    /\ last_computed = <<>>
    /\ stable = [x \in watched |-> NoStable]

\* After __init__, every script hash having one confirmed transaction.
InitCaches == InitCachesAt([x \in HashXs |-> [len |-> 1, at |-> 0]], FALSE, {}, {})

\* The same once serve has started the notifications.
StartedCaches == InitCachesAt([x \in HashXs |-> [len |-> 1, at |-> 0]], TRUE, {}, {})

\* The reaper task left out.
ReaperOff ==
    /\ last_recv = <<>>
    /\ reap_pc = "off"
    /\ reap_wake = 0
    /\ close_asked = <<>>

\* The state after SessionManager.__init__, under configuration e.
InitWith(e) ==
    /\ now = 0
    /\ env = e
    /\ serve_pc = "init"
    /\ ready_event = FALSE
    /\ notify_func = "None"
    /\ serve_exc = "None"
    /\ stopping = <<>>
    /\ sv = <<>>
    /\ remove_out = "none"
    /\ unsub_done = <<>>
    /\ disconnect_out = "none"
    /\ servers = {}
    /\ server_listening = FALSE
    /\ session_event = FALSE
    /\ paused = FALSE
    /\ manage_pc = "off"
    /\ start_queue = <<>>
    /\ next_recalc = 0
    /\ session_counter = 0
    /\ sessions = <<>>
    /\ session_groups = [n \in {} |-> 0]
    /\ groups = <<>>
    /\ cost = <<>>
    /\ skind = <<>>
    /\ conn = <<>>
    /\ extra_seen = <<>>
    /\ InitCaches
    /\ ReaperOff

Init == InitWith([max_sessions |-> 2, cost_hard_limit |-> 100, max_send |-> MinMaxSend,
                        session_timeout |-> 10])

\* The state serve reaches at tick 0 when every listener started and the
\* supervisors were spawned, before any connection.
Serving(e) ==
    /\ now = 0
    /\ env = e
    /\ serve_pc = "running"
    /\ ready_event = TRUE
    /\ notify_func = "_notify_sessions"
    /\ serve_exc = "None"
    /\ stopping = <<>>
    /\ sv = <<>>
    /\ remove_out = "none"
    /\ unsub_done = <<>>
    /\ disconnect_out = "none"
    /\ servers = Services
    /\ server_listening = TRUE
    /\ session_event = FALSE
    /\ paused = FALSE
    /\ manage_pc = "wait"
    /\ start_queue = <<>>
    /\ next_recalc = RecalcPeriod
    /\ session_counter = 0
    /\ sessions = <<>>
    /\ session_groups = [n \in {} |-> 0]
    /\ groups = <<>>
    /\ cost = <<>>
    /\ skind = <<>>
    /\ conn = <<>>
    /\ extra_seen = <<>>

\* The same with the caches of a DB whose script hashes have one confirmed
\* transaction each, the reaper left out.
RunningWith(e) ==
    /\ Serving(e)
    /\ StartedCaches
    /\ ReaperOff

Serve ==
    \/ \E ok \in BOOLEAN : ServeStartRpc(ok)
    \/ EventSet
    \/ ServeEvent
    \/ ServeNotificationsStarted
    \/ \E ok \in BOOLEAN : ServeStartOne(ok)

Manage ==
    \/ ManageWake
    \/ ManageClosed
    \/ \E ok \in BOOLEAN : ManageStartOne(ok)

TxHashes ==
    \/ \E t \in TxTasks, h \in Heights, found \in BOOLEAN : TxCall(t, h, found)
    \/ \E t \in TxTasks : TxDbRead(t)
    \/ \E t \in TxTasks : TxDbError(t)
    \/ \E t \in TxTasks, found \in BOOLEAN : TxDbReturn(t, found)
    \/ BackedUp
    \/ HandleChainReorgs

Estimatefee ==
    \/ \E c \in FeeCallers, k \in FeeKeys : FeeCall(c, k)
    \/ \E c \in FeeCallers : FeeResume(c)
    \/ \E c \in FeeCallers, out \in FeeRates \cup {NoFeerate, Raised} :
          FeeDaemonReturn(c, out)
    \/ \E c \in FeeCallers, out \in RelayFees \cup {Raised} : FeeRelayReturn(c, out)
    \/ \E t \in Tips : TipChange(t)

History ==
    \/ \E t \in HistTasks, x \in HashXs : HistCall(t, x)
    \/ \E t \in HistTasks : HistDbRead(t)
    \/ \E t \in HistTasks : HistDbReturn(t)
    \/ \E x \in HashXs : Evict(x)
    \/ \E T \in SUBSET HashXs, n \in HistLens : IndexBlock(T, n)
    \/ \E M \in SUBSET HashXs : NotifyBegin(M)
    \/ NotifyRefreshed

Subscriptions ==
    \/ \E s \in SubSessions, kd \in SubKinds : \E key \in KeysOf(kd) :
          SubscribeCall(s, kd, key)
    \/ \E p \in sub_pending : SubscribeDone(p[1], p[2], p[3])
    \/ \E s \in SubSessions, kd \in SubKinds : \E key \in KeysOf(kd) :
          Unsubscribe(s, kd, key)

Next ==
    \/ Serve
    \/ Manage
    \/ \E k \in Services, a \in Addresses : NewSession(k, a, MaxSid)
    \/ \E s \in SessionObjects : ConnectionLost(s)
    \/ \E s \in SessionObjects, d \in BumpDeltas : BumpCost(s, d)
    \/ RecalcConcurrency
    \/ Tick(RecalcPeriod)
    \/ TxHashes
    \/ Estimatefee
    \/ History
    \/ Subscriptions

Spec == Init /\ [][Next]_vars

\* Registry and groups: connections, disconnections, cost bumps and the
\* periodic recalculation, with the session limit out of reach.
InitReg == RunningWith([max_sessions |-> 1000, cost_hard_limit |-> 100, max_send |-> MinMaxSend,
                        session_timeout |-> 10])

NextReg ==
    \/ \E k \in {"rpc", "tcp"}, a \in {"private", "net1"} : NewSession(k, a, MaxSid)
    \/ \E s \in SessionObjects : ConnectionLost(s)
    \/ \E s \in SessionObjects, d \in BumpDeltas : BumpCost(s, d)
    \/ RecalcConcurrency
    \/ Tick(RecalcPeriod)

SpecReg == InitReg /\ [][NextReg]_vars

\* Sessions connect, run up cost and disconnect, and remove_session is
\* called again for sessions that are gone.
NextRemove ==
    \/ \E a \in {"private", "net1"} : NewSession("tcp", a, MaxSidRemove)
    \/ \E s \in SessionObjects : ConnectionLost(s)
    \/ \E s \in SessionObjects, d \in BumpDeltas : BumpCost(s, d)
    \/ \E s \in SessionObjects : RemoveAbsent(s)

SpecRemove == InitReg /\ [][NextRemove]_vars

\* Sessions connect, run up cost and disconnect, and the cost of a session,
\* registered or gone, becomes excessive in one of its bump_cost calls.
NextExcess ==
    \/ \E a \in {"private", "net1"} : NewSession("tcp", a, MaxSidExcess)
    \/ \E s \in SessionObjects : ConnectionLost(s)
    \/ \E s \in SessionObjects, d \in BumpDeltas : BumpCost(s, d)
    \/ \E s \in SessionObjects, d \in BumpDeltas : ExcessiveCost(s, d)

SpecExcess == InitReg /\ [][NextExcess]_vars

\* Group reclamation: sessions come, run up cost and go while the periods
\* of _recalc_concurrency pass, under a hard limit of 0, 50 or 100.  The
\* sleep of the "while True" loop always ends.
HardLimits == {0, 50, 100}

InitReclaim ==
    \E hl \in HardLimits :
        RunningWith([max_sessions |-> 1000, cost_hard_limit |-> hl,
                     max_send |-> MinMaxSend, session_timeout |-> 10])

NextReclaim ==
    \/ \E a \in {"private", "net1"} : NewSession("tcp", a, MaxSidReclaim)
    \/ \E s \in SessionObjects : ConnectionLost(s)
    \/ \E s \in SessionObjects, d \in BumpDeltas : BumpCost(s, d)
    \/ RecalcPeriodEnds

SpecReclaim == InitReclaim /\ [][NextReclaim]_vars /\ WF_vars(RecalcPeriodEnds)

\* Admission control from construction on, with a session limit of 2.
NextAdm ==
    \/ Serve
    \/ Manage
    \/ \E k \in Services : NewSession(k, "private", MaxSidAdm)
    \/ \E s \in SessionObjects : ConnectionLost(s)

SpecAdm == Init /\ [][NextAdm]_vars

\* The steps of serve's finally clause.
Shutdown ==
    \/ ServeWaitClosed
    \/ \E s \in SessionObjects : ServeSessionClosed(s)
    \/ ServeReraise

\* The life of serve from construction to its end, with a session limit of
\* 2: serve may end at any of its awaits.  A listener that was closed is
\* closed in the end, a session asked to close loses its connection, and
\* serve goes on when what it awaits is done.
NextLife ==
    \/ Serve
    \/ Manage
    \/ \E k \in Services : NewSession(k, "private", MaxSidLife)
    \/ \E s \in SessionObjects : ConnectionLost(s)
    \/ \E e \in Terminations : ServeTerminate(e)
    \/ Shutdown

SpecLife == Init /\ [][NextLife]_vars /\ WF_vars(Shutdown)

\* The same, where _manage_servers goes on whenever it can: it runs when
\* session_event is set, and its listens and wait_closed() calls return.
SpecResume == Init /\ [][NextAdm]_vars /\ WF_vars(Manage)

\* The admission scenario of the specification: max_sessions = 10, TCP
\* connections from private addresses.
InitAdm10 == InitWith([max_sessions |-> 10, cost_hard_limit |-> 100, max_send |-> MinMaxSend,
                        session_timeout |-> 10])

NextAdm10 ==
    \/ Serve
    \/ Manage
    \/ NewSession("tcp", "private", MaxSidAdm10)
    \/ \E s \in SessionObjects : ConnectionLost(s)

SpecAdm10 == InitAdm10 /\ [][NextAdm10]_vars

\* The server running with its default configuration, before any connection.
InitRun == RunningWith([max_sessions |-> 1000, cost_hard_limit |-> 100,
                        max_send |-> MinMaxSend,
                        session_timeout |-> 10])

\* Two sessions that send server.version again and again, and disconnect.
NextVersion ==
    \/ NewSession("tcp", "net1", 2)
    \/ \E s \in SessionObjects, name \in ClientNames, pt \in ProtocolResults :
          ServerVersion(s, name, pt)
    \/ \E s \in SessionObjects : ConnectionLost(s)

SpecVersion == InitRun /\ [][NextVersion]_vars

\* tx_hashes_at_blockheight calls interleaved with chain reorganisations.
SpecTx == InitRun /\ [][TxHashes]_vars

\* Every task makes one call, for a caller that does not go on into
\* _merkle_branch; a DB fetch that was awaited completes (with a list or with
\* DBError) and the task it completed for is resumed.
\* The tasks that call in this specification.
TxCallers == {1, 2}

NextTxLive ==
    \/ \E t \in TxCallers, h \in Heights :
          tx[t].result = "none" /\ TxCall(t, h, FALSE)
    \/ \E t \in TxCallers : TxDbRead(t)
    \/ \E t \in TxCallers : TxDbError(t)
    \/ \E t \in TxCallers : TxDbReturn(t, FALSE)
    \/ BackedUp
    \/ HandleChainReorgs

SpecTxLive ==
    /\ InitRun
    /\ [][NextTxLive]_vars
    /\ \A t \in TxTasks :
          /\ WF_vars(TxDbRead(t) \/ TxDbError(t))
          /\ WF_vars(TxDbReturn(t, FALSE))

\* Session timeouts of the reaper's configurations, in ticks.
SessionTimeouts == {1, 2}

\* serve running with the reaper in its first sleep(60).
InitReap ==
    /\ \E st \in SessionTimeouts :
          Serving([max_sessions |-> 1000, cost_hard_limit |-> 100,
                   max_send |-> MinMaxSend, session_timeout |-> st])
    /\ StartedCaches
    /\ last_recv = <<>>
    /\ reap_pc = "sleep"
    /\ reap_wake = SleepTicks
    /\ close_asked = <<>>

\* Sessions connect, receive data or stay silent, and disconnect while the
\* reaper runs every tick.
NextReap ==
    \/ NewSession("tcp", "net1", MaxSidReap)
    \/ \E s \in 0..(MaxSidReap - 1) : DataReceived(s)
    \/ \E s \in 0..(MaxSidReap - 1) : reap_pc = "sleep" /\ ConnectionLost(s)
    \/ ReapWake
    \/ \E s \in 0..(MaxSidReap - 1) : ReapSessionClosed(s)
    \/ ReapSleep
    \/ ReapTick

SpecReap == InitReap /\ [][NextReap]_vars

\* serve running over a DB in which x1 has no confirmed transaction and x2
\* has one; the mempool is empty.  The statuses that subscribes of the script
\* hashes of watched return are recorded.
InitShWatching(watched) ==
    /\ Serving([max_sessions |-> 1000, cost_hard_limit |-> 100,
                max_send |-> MinMaxSend, session_timeout |-> 10])
    /\ InitCachesAt([x \in HashXs |-> [len |-> IF x = "x1" THEN 0 ELSE 1, at |-> 0]],
                    TRUE, watched, {})
    /\ ReaperOff

InitSh == InitShWatching({})

\* One session subscribing to and unsubscribing from script hashes while
\* the mempool changes.
NextSh ==
    \/ NewSession("tcp", "net1", 1)
    \/ \E t \in HistTasks, a \in {"ax1", "bad"} : ShSubscribe(t, 0, a)
    \/ \E t \in HistTasks : HistDbRead(t)
    \/ \E t \in HistTasks : ShDbReturn(t)
    \/ \E a \in {"bx1", "bad"} : ShUnsubscribe(0, a)
    \/ \E n \in 0..MaxMempool : MempoolChange("x1", n)

SpecSh == InitSh /\ [][NextSh]_vars

\* One session that subscribes to the script hash ax1 again and again, from
\* two requests that may overlap, while blocks that add to its history are
\* indexed and dispatched.
NextStatus ==
    \/ NewSession("tcp", "net1", 1)
    \/ \E t \in HistTasks : ShSubscribe(t, 0, "ax1")
    \/ \E t \in HistTasks : HistDbRead(t)
    \/ \E t \in HistTasks : ShDbReturn(t)
    \/ IndexBlock({"x1"}, 1)
    \/ Dispatch({}, NoSets)
    \/ NotifyRefreshed
    \/ NotifyTask(0)
    \/ NotifyJoin

SpecStatus == InitShWatching({"x1"}) /\ [][NextStatus]_vars

\* The keys of the other kinds that a dispatch of the notifier carries.
SetsInputs ==
    {NoSets,
     [NoSets EXCEPT !["asset_subs"] = {"A", "#Q"},
                    !["qualifier_validator_subs"] = {"#Q"}]}

\* Two sessions that may subscribe to headers while blocks are indexed, the
\* history of x1 is cached, and the notifier dispatches.
NextDispatch ==
    \/ NewSession("tcp", "net1", MaxSidNotify)
    \/ \E s \in 0..(MaxSidNotify - 1) : HeadersSubscribe(s)
    \/ HistCall(1, "x1")
    \/ HistDbRead(1)
    \/ HistDbReturn(1)
    \/ IndexBlock({"x1"}, 1)
    \/ Dispatch({}, NoSets)
    \/ NotifyRefreshed
    \/ \E s \in 0..(MaxSidNotify - 1) : NotifyStart(s)
    \/ \E s \in 0..(MaxSidNotify - 1) : NotifyKind(s)
    \/ NotifyJoin

SpecDispatch == InitSh /\ [][NextDispatch]_vars

\* From construction on: serve starts while blocks are indexed, then one
\* session subscribes to headers and is notified of the blocks.
NextHeaders ==
    \/ Serve
    \/ IndexBlock({"x1"}, 1)
    \/ NewSession("tcp", "net1", 1)
    \/ HeadersSubscribe(0)
    \/ Dispatch({}, NoSets)
    \/ NotifyRefreshed
    \/ NotifyStart(0)
    \/ NotifyKind(0)
    \/ NotifyJoin

SpecHeaders == Init /\ [][NextHeaders]_vars

\* The client has subscribed to headers; to the asset A.
HeadersFirst == 0 \in DOMAIN subscribe_headers /\ subscribe_headers[0]

AssetFirst == 0 \in DOMAIN set_subs /\ "A" \in set_subs[0]["asset_subs"]

\* No block has been indexed since the start.
FirstBlock == db_height = 0

\* One session whose client subscribes to headers, then to the asset A, then
\* to two script hashes, and unsubscribes from one of them, notified of one
\* block and of touched keys of which it has some.
NextNotify ==
    \/ NewSession("tcp", "net1", 1)
    \/ HeadersSubscribe(0)
    \/ HeadersFirst /\ SubscribeCall(0, "asset_subs", "A")
    \/ SubscribeDone(0, "asset_subs", "A")
    \/ \E a \in {"ax1", "ax2"} : AssetFirst /\ ShSubscribe(1, 0, a)
    \/ HistDbRead(1)
    \/ ShDbReturn(1)
    \/ ShUnsubscribe(0, "ax2")
    \/ FirstBlock /\ IndexBlock({"x1"}, 1)
    \/ \E A \in SetsInputs : Dispatch({"x2"}, A)
    \/ NotifyRefreshed
    \/ NotifyTask(0)
    \/ NotifyJoin

SpecNotify == InitSh /\ [][NextNotify]_vars

\* One session subscribing to the script hash x1 under two aliases, while
\* its mempool changes, a block makes its history too large, and its cache
\* entry is evicted.
NextResub ==
    \/ NewSession("tcp", "net1", 1)
    \/ \E a \in {"ax1", "bx1"} : ShSubscribe(1, 0, a)
    \/ HistDbRead(1)
    \/ ShDbReturn(1)
    \/ \E n \in 0..MaxMempool : MempoolChange("x1", n)
    \/ FirstBlock /\ IndexBlock({"x1"}, 4000)
    \/ Evict("x1")

SpecResub == InitSh /\ [][NextResub]_vars

\* The client has subscribed to both script hashes.
BothSubscribed == 0 \in DOMAIN hashX_subs /\ DOMAIN hashX_subs[0] = {"x1", "x2"}

\* One session that subscribes to two script hashes; then the mempool of x1
\* changes, a block makes the history of x1 too large, and the session is
\* notified of it and of x2, touched in the mempool.
NextDiscard ==
    \/ NewSession("tcp", "net1", 1)
    \/ \E a \in {"ax1", "ax2"} : FirstBlock /\ ShSubscribe(1, 0, a)
    \/ HistDbRead(1)
    \/ ShDbReturn(1)
    \/ \E n \in 0..MaxMempool : BothSubscribed /\ MempoolChange("x1", n)
    \/ BothSubscribed /\ FirstBlock /\ IndexBlock({"x1"}, 4000)
    \/ \E M \in {{}, {"x2"}} : BothSubscribed /\ Dispatch(M, NoSets)
    \/ NotifyRefreshed
    \/ NotifyTask(0)
    \/ NotifyJoin

SpecDiscard == InitSh /\ [][NextDiscard]_vars

\* One session subscribing to and unsubscribing from a script hash whose
\* mempool changes and whose history grows too large, notified of the blocks.
NextMempool ==
    \/ NewSession("tcp", "net1", 1)
    \/ ShSubscribe(1, 0, "ax1")
    \/ HistDbRead(1)
    \/ ShDbReturn(1)
    \/ ShUnsubscribe(0, "ax1")
    \/ \E n \in 0..MaxMempool : MempoolChange("x1", n)
    \/ IndexBlock({"x1"}, 4000)
    \/ Dispatch({}, NoSets)
    \/ NotifyRefreshed
    \/ NotifyTask(0)
    \/ NotifyJoin

SpecMempool == InitSh /\ [][NextMempool]_vars

\* One session subscribing to and unsubscribing from a script hash whose
\* mempool changes, notified of a block that adds to its history.
NextUnsub ==
    \/ NewSession("tcp", "net1", 1)
    \/ ShSubscribe(1, 0, "ax1")
    \/ HistDbRead(1)
    \/ ShDbReturn(1)
    \/ ShUnsubscribe(0, "ax1")
    \/ \E n \in 0..MaxMempool : MempoolChange("x1", n)
    \/ FirstBlock /\ IndexBlock({"x1"}, 1)
    \/ Dispatch({}, NoSets)
    \/ NotifyRefreshed
    \/ NotifyTask(0)
    \/ NotifyJoin

SpecUnsub == InitSh /\ [][NextUnsub]_vars

\* One session subscribed to a script hash whose mempool changes, notified of
\* a block that touches another script hash and of mempool updates that touch
\* its own.
NextReeval ==
    \/ NewSession("tcp", "net1", 1)
    \/ ShSubscribe(1, 0, "ax1")
    \/ HistDbRead(1)
    \/ ShDbReturn(1)
    \/ \E n \in 0..MaxMempool : MempoolChange("x1", n)
    \/ FirstBlock /\ IndexBlock({"x2"}, 1)
    \/ \E M \in {{}, {"x1"}} : Dispatch(M, NoSets)
    \/ NotifyRefreshed
    \/ NotifyTask(0)
    \/ NotifyJoin

SpecReeval == InitSh /\ [][NextReeval]_vars

\* Chain reorganisations with every cache in use and a session registered:
\* one caller each of tx_hashes_at_blockheight, limited_history and
\* estimatefee, and a notification.
NextReorg ==
    \/ \E h \in Heights : TxCall(1, h, TRUE)
    \/ TxDbRead(1)
    \/ TxDbReturn(1, TRUE)
    \/ BackedUp
    \/ HandleChainReorgs
    \/ HistCall(1, "x1")
    \/ HistDbRead(1)
    \/ HistDbReturn(1)
    \/ FeeCall(1, <<6, "None">>)
    \/ \E out \in FeeRates : FeeDaemonReturn(1, out)
    \/ NewSession("tcp", "net1", 1)

SpecReorg == InitRun /\ [][NextReorg]_vars

\* estimatefee requests interleaved with tip changes.
SpecFee == InitRun /\ [][Estimatefee]_vars

\* Three callers, where the daemon answers every request (with a result or
\* an error) and a task that was handed the lock is resumed.
FeeLiveCallers == {1, 2, 3}

NextFeeLive ==
    \/ \E c \in FeeLiveCallers, k \in FeeKeys : FeeCall(c, k)
    \/ \E c \in FeeLiveCallers : FeeResume(c)
    \/ \E c \in FeeLiveCallers, out \in FeeRates \cup {NoFeerate, Raised} :
          FeeDaemonReturn(c, out)
    \/ \E c \in FeeLiveCallers, out \in RelayFees \cup {Raised} : FeeRelayReturn(c, out)
    \/ \E t \in Tips : TipChange(t)

SpecFeeLive ==
    /\ InitRun
    /\ [][NextFeeLive]_vars
    /\ \A c \in FeeCallers :
          /\ WF_vars(FeeResume(c))
          /\ WF_vars(\E out \in FeeRates \cup {NoFeerate, Raised} : FeeDaemonReturn(c, out))
          /\ WF_vars(\E out \in RelayFees \cup {Raised} : FeeRelayReturn(c, out))

\* limited_history calls interleaved with new blocks, notifications and
\* evictions.
SpecHist == InitRun /\ [][History]_vars

\* One ElectrumX session subscribing and unsubscribing.
NextSubs ==
    \/ NewSession("tcp", "private", 1)
    \/ Subscriptions

SpecSubs == InitRun /\ [][NextSubs]_vars

\* ----------------------------------------------------------------- claims
\* C1: in every reachable state, every session of the registry is a member
\* of each group listed for it, and every member of a group of
\* session_groups is in the registry with that group listed for it.
C1_RegistryMatchesGroups ==
    /\ \A s \in Registered : \A g \in Range(sessions[s]) :
          g \in DOMAIN groups /\ s \in groups[g].sessions
    /\ \A n \in DOMAIN session_groups : \A s \in groups[session_groups[n]].sessions :
          s \in Registered /\ session_groups[n] \in Range(sessions[s])

\* A departed session, a registered one sharing its two groups with another
\* registered session, after a cleanup round that removed group t0.
C1_Witness ==
    /\ next_recalc > RecalcPeriod
    /\ "t0" \notin DOMAIN session_groups
    /\ \E s \in Registered : conn[s] = "open" /\ Len(sessions[s]) = 2
    /\ \E t \in SessionObjects : conn[t] = "lost" /\ t \notin Registered

\* The sum of the retained costs of the group objects.
TotalRetained(gs) ==
    SumOver([g \in DOMAIN gs |-> gs[g].retained_cost], DOMAIN gs)

\* C2: remove_session(s) takes s out of the registry and out of each of its
\* groups, adds exactly s.cost to the retained cost of each of them (so the
\* sum grows by |Gs| * s.cost), and changes no other group.
C2_RemoveSessionEffect ==
    [][\A s \in SessionObjects : ConnectionLost(s) =>
          /\ s \notin DOMAIN sessions'
          /\ DOMAIN sessions' = DOMAIN sessions \ {s}
          /\ \A g \in Range(sessions[s]) :
                /\ s \notin groups'[g].sessions
                /\ groups'[g].retained_cost = groups[g].retained_cost + cost[s]
          /\ \A g \in DOMAIN groups \ Range(sessions[s]) : groups'[g] = groups[g]
          /\ DOMAIN groups' = DOMAIN groups
          /\ session_groups' = session_groups
          /\ TotalRetained(groups') =
                TotalRetained(groups) + Len(sessions[s]) * cost[s]]_vars

\* A session that left two groups with a cost of 8, retained by both.
C2_Witness ==
    /\ session_counter = 1
    /\ conn[0] = "lost" /\ 0 \notin Registered
    /\ Cardinality({g \in DOMAIN groups : groups[g].retained_cost = MaxCost}) = 2

\* The sum the claim gives for a registered session, from SessionGroup.cost.
ExtraCostSum(s) ==
    LET terms == [i \in 1..Len(sessions[s]) |->
                     (group_cost(sessions[s][i]) - cost[s]) * groups[sessions[s][i]].weight]
    IN SumOver(terms, DOMAIN terms)

\* C9: called for a session that is no longer registered, extra_cost returns
\* 0 and raises nothing; for a registered session it returns the sum over its
\* groups g of (g.cost() - s.cost) * g.weight.
C9_ExtraCostTolerant ==
    [][\A s \in SessionObjects, d \in BumpDeltas :
          (BumpCost(s, d) /\ skind[s] # "rpc") =>
             /\ extra_seen'[s] # Raised
             /\ s \notin Registered => extra_seen'[s] = 0
             /\ s \in Registered => extra_seen'[s] = ExtraCostSum(s)']_vars

\* Session 0 bumped its cost after it was removed (the group retains the 5
\* it had then) and got 0; session 1 is registered and got a positive sum.
C9_Witness ==
    /\ session_counter = 2
    /\ conn[0] = "lost" /\ 0 \notin Registered /\ skind[0] # "rpc"
    /\ cost[0] = ConnectionCost + 3
    /\ \E g \in DOMAIN groups : groups[g].retained_cost = ConnectionCost
    /\ extra_seen[0] = 0
    /\ 1 \in Registered /\ skind[1] # "rpc" /\ cost[1] > ConnectionCost
    /\ extra_seen[1] > 0

\* _manage_servers enters _start_external_servers in this step.
RestartBegins == manage_pc # "starting" /\ manage_pc' = "starting"

\* C7: once _manage_servers has paused the external listeners, it restarts
\* them only in a step where the number of registered sessions is at most
\* floor(max_sessions * 19 / 20); until such a step the listeners stay stopped.
C7_AdmissionHysteresis ==
    /\ []((manage_pc = "closing" \/ (paused /\ manage_pc = "wait"))
             => servers \cap ExternalServices = {})
    /\ [][RestartBegins =>
             /\ paused'
             /\ Cardinality(Registered) <= (env.max_sessions * 19) \div 20]_vars

\* A restart in progress after a pause, begun at or below the low watermark.
C7_Witness ==
    /\ manage_pc = "starting" /\ paused
    /\ session_counter >= env.max_sessions
    /\ Cardinality(Registered) <= (env.max_sessions * 19) \div 20

\* C8 as stated: with max_sessions = 10, after the pause the listeners are
\* still closed when 9 sessions remain (and re-open at 8).
C8_StillClosedAtNine ==
    [][(paused /\ manage_pc = "wait" /\ Cardinality(Registered) = 9)
          => ~RestartBegins]_vars

\* C8, amended: with max_sessions = 10, a wake-up of _manage_servers at 10 or
\* more sessions closes the non-RPC listeners; a wake-up while paused with 9
\* sessions remaining (9 = floor(10 * 19 / 20)) already restarts them, and no
\* restart begins with more than 9.
C8_ReopenAtNine ==
    /\ [](env.max_sessions = 10)
    /\ [][(ManageWake /\ ~paused /\ Cardinality(Registered) >= 10)
             => /\ servers' \cap ExternalServices = {}
                /\ manage_pc' = "closing" \/ paused']_vars
    /\ [][(ManageWake /\ paused /\ Cardinality(Registered) = 9) => RestartBegins]_vars
    /\ [][RestartBegins => Cardinality(Registered) <= 9]_vars

\* Ten sessions connected, the listeners were paused, one session left, and
\* the restart has begun with 9 sessions remaining.
C8_Witness ==
    /\ session_counter = 10
    /\ Cardinality(Registered) = 9
    /\ paused /\ manage_pc = "starting"
    /\ servers \cap ExternalServices = {}

\* C3: a tx-hash list whose DB fetch overlapped an advance of reorg_count is
\* not installed: the call fetches again under the new reorg_count.  Every
\* list in tx_hashes_cache was read from the DB under the current reorg_count,
\* and, once the last reorg signal has been handled, from the chain the DB
\* holds now.
C3_TxHashesCacheFresh ==
    /\ [](\A h \in DOMAIN tx_hashes_cache :
             /\ tx_hashes_cache[h].rc = reorg_count
             /\ ~reorg_pending => tx_hashes_cache[h].gen = db_gen)
    /\ [][\A t \in TxTasks :
             ((\E f \in BOOLEAN : TxDbReturn(t, f)) /\ tx[t].snap # reorg_count) =>
                /\ tx_hashes_cache' = tx_hashes_cache
                /\ tx'[t].pc = "db"
                /\ tx'[t].snap = reorg_count
                /\ tx'[t].fetches = tx[t].fetches + 1]_vars

\* A call whose first fetch overlapped a reorg has fetched a second time and
\* installed the list of the new chain.
C3_Witness ==
    \E t \in TxTasks :
        /\ tx[t].pc = "idle" /\ tx[t].result = "ok" /\ tx[t].fetches = 2
        /\ reorg_count = 1 /\ db_gen = 1 /\ ~reorg_pending
        /\ tx[t].height \in DOMAIN tx_hashes_cache
        /\ tx_hashes_cache[tx[t].height] = [gen |-> 1, rc |-> 1]

\* The callers that asked for key k, and those of them that have returned.
FeeAsked(k) == {c \in FeeCallers : fee[c].pc # "idle" /\ fee[c].key = k}
FeeReturned(k) == {c \in FeeAsked(k) : fee[c].pc = "done"}

FeeReturnsCached(c) == fee[c].pc \in {"idle", "waiting"} /\ fee'[c].pc = "done"

\* C5: a caller that returns without asking the daemon returns the feerate of
\* a computed cache entry whose tip hash is the current tip; a request that
\* finds an entry of another tip (or the placeholder), before or under the
\* lock, does not return it: it waits for the lock or asks the daemon.
C5_CacheOnlyAtCurrentTip ==
    /\ [][\A c \in FeeCallers : FeeReturnsCached(c) =>
             LET k == fee'[c].key
             IN /\ k \in DOMAIN estimatefee_cache
                /\ estimatefee_cache[k].blockhash # NoHash
                /\ estimatefee_cache[k].blockhash = tip
                /\ fee'[c].result = estimatefee_cache[k].feerate
                /\ fee'[c].result # NoFeerate]_vars
    /\ [][\A c \in FeeCallers, k \in FeeKeys :
             (FeeCall(c, k) /\ k \in DOMAIN estimatefee_cache
                 /\ estimatefee_cache[k].blockhash # tip)
             => fee'[c].pc \in {"waiting", "daemon"}]_vars
    /\ [][\A c \in FeeCallers :
             (FeeResume(c) /\ estimatefee_cache[fee[c].key].blockhash # tip)
             => /\ fee'[c].pc = "daemon"
                /\ daemon_calls'[fee[c].key] = daemon_calls[fee[c].key] + 1]_vars

\* A feerate was computed at tip T1; after the tip changed a second one was
\* computed at T2, and a third caller got that one from the cache.
C5_Witness ==
    \E k \in FeeKeys : \E c1, c2, c3 \in FeeReturned(k) :
        /\ tip = "T2" /\ tip_changes = 1
        /\ fee[c1].via = "daemon" /\ fee[c1].blockhash = "T1"
        /\ fee[c2].via = "daemon" /\ fee[c2].blockhash = "T2"
        /\ fee[c3].via = "cache" /\ fee[c3].blockhash = "T2"
        /\ fee[c1].result # fee[c2].result
        /\ fee[c3].result = fee[c2].result
        /\ estimatefee_cache[k] = [blockhash |-> "T2", feerate |-> fee[c2].result]
        /\ daemon_calls[k] = 2

\* The history cache holds the 'history too large' error for x.
CachedError(x) == x \in DOMAIN history_cache /\ history_cache[x].err

\* C6 as stated: once the 'history too large' error is cached for hashX, it
\* stays cached until the entry is evicted or _notify_sessions removes it, and
\* every call made meanwhile raises it without a DB query.
C6_ErrorSticky ==
    /\ [][\A x \in HashXs : (CachedError(x) /\ ~CachedError(x)') =>
             \/ Evict(x)
             \/ NotifyRefreshed /\ x \in notify_args.touched]_vars
    /\ [][\A t \in HistTasks, x \in HashXs : (HistCall(t, x) /\ CachedError(x)) =>
             /\ hist'[t].pc = "idle"
             /\ hist'[t].result.err]_vars

\* C10 as stated: an unsubscribe of a set-based kind returns true exactly if
\* the key was in the session's set before the call, and the key is not in
\* the set afterwards.
C10_UnsubscribeReportsMembership ==
    [][\A s \in SubSessions, kd \in SubKinds : \A key \in KeysOf(kd) :
          Unsubscribe(s, kd, key) =>
             /\ (unsub_ret'[s] = "True") <=> (stored_key(kd, key) \in set_subs[s][kd])
             /\ stored_key(kd, key) \notin set_subs'[s][kd]]_vars

\* C19: a step of _handle_chain_reorgs increments reorg_count by exactly 1,
\* empties tx_hashes_cache and merkle_cache, and leaves the history cache, the
\* estimatefee cache, notified_height (with hsub_results) and the session
\* registry as they were; no step decreases reorg_count.
C19_ReorgFrame ==
    /\ [][HandleChainReorgs =>
             /\ reorg_count' = reorg_count + 1
             /\ tx_hashes_cache' = <<>>
             /\ merkle_cache' = <<>>
             /\ history_cache' = history_cache
             /\ estimatefee_cache' = estimatefee_cache
             /\ notified_height' = notified_height
             /\ hsub_results' = hsub_results
             /\ sessions' = sessions
             /\ session_groups' = session_groups
             /\ groups' = groups]_vars
    /\ [][reorg_count' >= reorg_count]_vars

\* A reorg was handled: the lists installed for both heights (one with a
\* MerkleCache) are gone, while the history cache, the estimatefee cache, the
\* notified height and the registry still hold what they held.
C19_Witness ==
    /\ reorg_count = 1 /\ ~reorg_pending
    /\ tx_hashes_cache = <<>> /\ merkle_cache = <<>>
    /\ tx[1].result = "ok" /\ tx[1].fetches = 1 /\ tx[1].height = 2
    /\ "x1" \in DOMAIN history_cache
    /\ <<6, "None">> \in DOMAIN estimatefee_cache
    /\ estimatefee_cache[<<6, "None">>].blockhash = "T1"
    /\ notified_height = 0
    /\ Registered = {0}

\* C20: whenever the reaper wakes, it asks exactly the registered sessions
\* whose last_recv is earlier than now - session_timeout to close, with
\* force_after = 1.0, and no session at or after that cutoff; the reaper is
\* never late for its tick, so that a registered session that is not being
\* closed has been stale for less than one tick.
C20_StaleReaper ==
    /\ [][ReapWake =>
            /\ \A s \in Registered :
                  last_recv[s] < now - env.session_timeout
                     => s \in DOMAIN close_asked' /\ close_asked'[s] = 10
            /\ \A s \in Registered :
                  last_recv[s] >= now - env.session_timeout
                     => (s \in DOMAIN close_asked' <=> s \in DOMAIN close_asked)
            /\ DOMAIN close_asked' \subseteq DOMAIN close_asked \cup Registered]_vars
    /\ [][now' # now => reap_pc = "sleep" /\ now < reap_wake /\ now' = now + 1]_vars
    /\ [](reap_pc = "sleep" => reap_wake <= now + 1)
    /\ [](\A s \in Registered \ DOMAIN close_asked :
             now - env.session_timeout - last_recv[s] <= 1)

\* With session_timeout = 60 s, a session silent since tick 0 was asked to
\* close at tick 2 with force_after = 1.0, while the session that received
\* data at tick 1 (the cutoff) was not.
C20_Witness ==
    /\ env.session_timeout = 1
    /\ now = 2
    /\ Registered = {0, 1}
    /\ last_recv[0] = 0 /\ last_recv[1] = 1
    /\ close_asked = (0 :> 10)
    /\ reap_pc = "closing"

\* C11: scripthash.unsubscribe returns true exactly when the hashX was a key
\* of the session's hashX_subs right before the call, and afterwards the hashX
\* is a key of neither hashX_subs nor mempool_statuses.
C11_ScripthashUnsubscribe ==
    [][\A s \in DOMAIN hashX_subs, a \in Scripthashes :
          (ShUnsubscribe(s, a) /\ scripthash_to_hashX(a) \in HashXs) =>
             /\ unsub_ret'[s] = "True" <=> scripthash_to_hashX(a) \in DOMAIN hashX_subs[s]
             /\ unsub_ret'[s] \in {"True", "False"}
             /\ scripthash_to_hashX(a) \notin DOMAIN hashX_subs'[s]
             /\ scripthash_to_hashX(a) \notin DOMAIN mempool_statuses'[s]]_vars

\* The session subscribed to x1 while x1 had a mempool transaction and then
\* unsubscribed (with another script hash of the same hashX): the call
\* returned true and x1 left both dicts.
C11_Witness ==
    /\ 0 \in DOMAIN unsub_ret /\ unsub_ret[0] = "True"
    /\ \E t \in HistTasks : sh[t].out = "ok"
    /\ mempool["x1"] = 1
    /\ "x1" \notin DOMAIN hashX_subs[0]
    /\ "x1" \notin DOMAIN mempool_statuses[0]

\* C13: when _notify_sessions is called with a height other than
\* notified_height, then in the step that starts the notify tasks
\* hsub_results and notified_height are those of the new height and no touched
\* hashX is in the history cache; the steps of a call with the height equal
\* to notified_height leave hsub_results, notified_height and the history
\* cache as they are.
C13_RefreshBeforeNotify ==
    /\ [][(\E s \in DOMAIN ntask : ntask[s].pc = "idle" /\ ntask'[s].pc = "start")
            => IF notify_args'.height_changed
               THEN /\ notify_args'.height # notified_height
                    /\ notified_height' = notify_args'.height
                    /\ hsub_results' = [hex |-> raw_header_hex(notify_args'.height),
                                        height |-> notify_args'.height]
                    /\ notify_args'.touched \cap DOMAIN history_cache' = {}
               ELSE /\ notify_args'.height = notified_height
                    /\ UNCHANGED <<hsub_results, notified_height, history_cache>>]_vars
    /\ [][(notify_pc' # notify_pc /\ notify_pc # "refresh")
            => UNCHANGED <<hsub_results, notified_height, history_cache>>]_vars
    /\ [](\A s \in DOMAIN ntask : ntask[s].pc = "start" /\ ntask[s].height_changed
             => notified_height = notify_args.height
                /\ hsub_results.height = notify_args.height)

\* The notify tasks of two sessions were started for height 1 while the
\* history of the touched x1, cached before, is gone from the cache and
\* hsub_results is the header of height 1.
C13_Witness ==
    /\ DOMAIN ntask = {0, 1}
    /\ \A s \in {0, 1} : ntask[s].pc = "start" /\ ntask[s].height_changed
                         /\ ntask[s].touched = {"x1"}
    /\ hist[1].result.len = 0 /\ hist[1].via = "db"
    /\ "x1" \notin DOMAIN history_cache
    /\ notified_height = 1
    /\ hsub_results = [hex |-> "header1", height |-> 1]

computing(s, x) ==
    \/ \E t \in DOMAIN sh : sh[t].pc = "db" /\ sh[t].s = s /\ sh[t].x = x
    \/ ntask[s].cur = x

\* C17: whenever no status computation for a hashX is in progress on a
\* session, the hashX is a key of the session's mempool_statuses exactly when
\* the last status computed for it on that session since its last unsubscribe
\* used at least one mempool transaction, and the stored value is that status.
C17_MempoolStatuses ==
    \A s \in DOMAIN mempool_statuses : \A x \in HashXs :
        ~computing(s, x) =>
           /\ x \in DOMAIN mempool_statuses[s]
                 <=> (x \in DOMAIN last_computed[s] /\ last_computed[s][x].m > 0)
           /\ x \in DOMAIN mempool_statuses[s]
                 => mempool_statuses[s][x] = last_computed[s][x].status

\* The status of x1 was computed with a mempool transaction and stored, and
\* computed again after the transaction left the mempool: x1 is subscribed,
\* its last status used no mempool transaction and mempool_statuses has no
\* entry for it.
C17_Witness ==
    /\ 0 \in DOMAIN mempool_statuses
    /\ "x1" \in DOMAIN hashX_subs[0]
    /\ "x1" \in DOMAIN last_computed[0] /\ last_computed[0]["x1"].m = 0
    /\ "x1" \notin DOMAIN mempool_statuses[0]
    /\ ~computing(0, "x1")
    /\ \E i \in 1..Len(sent[0]) : sent[0][i].method = "scripthash" /\ sent[0][i].status.m > 0

\* The scripthash notifications a step appends to the log of session s.
new_notes(s) == {i \in (Len(sent[s]) + 1)..Len(sent'[s]) : sent'[s][i].method = "scripthash"}

\* C18 as stated: when the height changed, a scripthash notification for a
\* hashX that had a stored status in mempool_statuses is sent only with a
\* status that differs from the stored one.
C18_AsStated ==
    [][\A s \in DOMAIN sent : \A i \in new_notes(s) :
          (sent'[s][i].hc /\ sent'[s][i].old # NoStatus)
             => sent'[s][i].status # sent'[s][i].old]_vars

\* C18, amended: when the height changed and mempool_statuses is not empty
\* the task enters the scripthash part; the loop after the touched one goes
\* over a copy of the whole of mempool_statuses and recomputes the status of
\* each of its hashXs that is still subscribed; a hashX that is not in
\* touched enters the notifications only with a status that differs from the
\* copied one, and is notified only so.
C18_NotTouchedOnlyIfDiffers ==
    /\ [][\A s \in DOMAIN ntask :
            (ntask[s].pc = "sets" /\ ntask'[s].pc = "idle" /\ ntask[s].height_changed)
               => DOMAIN mempool_statuses[s] = {}]_vars
    /\ [][\A s \in DOMAIN ntask :
            (ntask[s].pc = "touched" /\ ntask'[s].pc = "mempool")
               => ntask'[s].mtodo = mempool_statuses[s]]_vars
    /\ [][\A s \in DOMAIN ntask :
            (ntask[s].pc = "mempool" /\ s \in DOMAIN ntask')
               => (\A x \in DOMAIN ntask[s].mtodo \ DOMAIN ntask'[s].mtodo :
                      /\ \/ x \notin DOMAIN hashX_subs[s]
                         \/ x \notin DOMAIN hashX_subs'[s]
                         \/ /\ x \in DOMAIN last_computed'[s]
                            /\ last_computed'[s][x].m = mempool[x]
                            /\ x \in DOMAIN history_cache'
                      /\ x \notin ntask[s].touched
                           => \A i \in 1..Len(ntask'[s].changed) :
                                 ntask'[s].changed[i].x = x
                                    => /\ ntask'[s].changed[i].status # ntask[s].mtodo[x]
                                       /\ ntask'[s].changed[i].old = ntask[s].mtodo[x]
                                       /\ ntask'[s].changed[i].src = "mempool")]_vars
    /\ [][\A s \in DOMAIN sent : \A i \in new_notes(s) :
            /\ ntask[s].pc = "mempool" /\ DOMAIN ntask[s].mtodo = {}
            /\ \E j \in 1..Len(ntask[s].changed) :
                  /\ ntask[s].changed[j].x = sent'[s][i].key
                  /\ ntask[s].changed[j].status = sent'[s][i].status
            /\ sent'[s][i].key \notin ntask[s].touched
                  => /\ sent'[s][i].src = "mempool"
                     /\ sent'[s][i].status # sent'[s][i].old]_vars

\* After a block that did not touch x1 the task recomputed the status of x1,
\* stored with a mempool transaction, found it changed and notified it.
C18_Witness ==
    /\ 0 \in DOMAIN sent
    /\ \E i \in 1..Len(sent[0]) :
          /\ sent[0][i].method = "scripthash" /\ sent[0][i].key = "x1"
          /\ sent[0][i].hc /\ sent[0][i].src = "mempool"
          /\ sent[0][i].old.m > 0 /\ sent[0][i].status # sent[0][i].old

\* After a block that did not touch x1 the task recomputed the status of x1,
\* found it equal to the stored one and sent nothing.
C18_WitnessQuiet ==
    /\ 0 \in DOMAIN sent /\ sent[0] = <<>>
    /\ dispatches = 1 /\ notify_pc = "idle" /\ notified_height = 1
    /\ "x1" \in DOMAIN mempool_statuses[0]

\* The notifications a step appends to the log of session s.
appended(s) == (Len(sent[s]) + 1)..Len(sent'[s])

Settled ==
    /\ notify_pc = "idle"
    /\ db_height = notified_height
    /\ touched_acc = {}
    /\ \A s \in DOMAIN ntask : ntask[s].pc = "idle"

\* C12: the status a subscribe returns is a function of the confirmed history
\* in the DB and the mempool summaries, null exactly when both are empty: a
\* subscribe that ran while the DB history and the mempool of its script hash
\* stayed as they were, and ended when every indexed block had been
\* dispatched, returns the status of that history and mempool, so that a
\* resubscribe in the same DB and mempool state returns the same status.
C12_StableStatus ==
    [][\A x \in DOMAIN stable :
          (stable'[x] # stable[x] /\ Settled)
             => /\ stable'[x].status =
                      LET n == Min(db_hist[x].len, history_limit)
                      IN IF n = 0 /\ mempool[x] = 0 THEN NoStatus
                         ELSE [len |-> n, at |-> db_hist[x].at, m |-> mempool[x]]
                /\ (stable[x].set /\ stable[x].world = stable'[x].world)
                      => stable'[x].status = stable[x].status]_vars

\* C21: the startup order of serve.  Nothing listens before serve attempted
\* the RPC listener; while any non-RPC listener is up or being started, or
\* server_listening is set, the event had been set and the notifier had been
\* started with _notify_sessions (hsub_results initialised); the supervisors
\* exist only after _start_external_servers ended, which set
\* server_listening.
C21_StartupOrder ==
    /\ serve_pc = "init" => servers = {} /\ start_queue = <<>>
    /\ (servers \ {"rpc"} # {} \/ start_queue # <<>> \/ server_listening)
          => /\ serve_pc # "init"
             /\ ready_event
             /\ notify_func = "_notify_sessions"
             /\ notified_height # NoHeight
    /\ manage_pc # "off" => server_listening /\ serve_pc = "running"

\* serve is running with the TCP listener up and _manage_servers spawned.
C21_Witness ==
    /\ serve_pc = "running"
    /\ "tcp" \in servers
    /\ manage_pc = "wait"

\* C22: shutdown always runs.  When serve ends, by cancellation, a failing
\* supervisor or an error of the startup, every listener of the servers map
\* (the RPC one included) is popped and closed, so the map is empty from then
\* on; the sessions are asked to close only when every wait_closed()
\* returned, each registered session with force_after = 1; serve raises only
\* after that, the exception it ended with; and it does get there.
C22_ShutdownAlwaysRuns ==
    /\ [](serve_exc # "None" => servers = {})
    /\ [][serve_exc = "None" /\ serve_exc' # "None"
            => /\ Range(stopping') = servers
               /\ serve_pc' = IF servers = {} THEN "closing_sessions" ELSE "stopping"]_vars
    /\ [][close_asked' # close_asked
            => /\ servers' = {} /\ stopping' = <<>>
               /\ serve_exc' # "None"
               /\ \A s \in Registered :
                     s \in DOMAIN close_asked' /\ close_asked'[s] = ShutdownForceAfter]_vars
    /\ [][serve_pc # "raised" /\ serve_pc' = "raised"
            => /\ serve_pc = "closing_sessions"
               /\ serve_exc # "None" /\ serve_exc' = serve_exc]_vars
    /\ (serve_exc # "None") ~> (serve_pc = "raised")

\* serve was cancelled while sessions were registered, closed its listeners,
\* asked the sessions to close and raised.
C22_Witness ==
    /\ serve_pc = "raised"
    /\ serve_exc = "CancelledError"
    /\ DOMAIN close_asked # {}

\* C23: server.version is accepted once per session.  Whenever a session
\* that already handled a server.version call handles another one, the answer
\* is the BAD_REQUEST error, its protocol tuple, client name and handler
\* table stay as they were, no disconnect is asked for and the connection
\* stays as it is.
C23_VersionOnce ==
    [][\A s \in DOMAIN sv :
          (sv[s].calls >= 1 /\ sv'[s].calls = sv[s].calls + 1)
             => /\ sv'[s].reply = "BAD_REQUEST"
                /\ sv'[s].protocol_tuple = sv[s].protocol_tuple
                /\ sv'[s].client = sv[s].client
                /\ sv'[s].handlers = sv[s].handlers
                /\ sv'[s].disconnect = sv[s].disconnect
                /\ conn'[s] = conn[s]]_vars

\* A session negotiated version 1.11 under a name cut to 17 characters, sent
\* server.version twice more, and is still connected.
C23_Witness ==
    \E s \in DOMAIN sv :
       /\ sv[s].calls = 3
       /\ sv[s].reply = "BAD_REQUEST"
       /\ sv[s].protocol_tuple = <<1, 11>>
       /\ sv[s].client = "a-wallet-with-a-l"
       /\ ~sv[s].disconnect
       /\ conn[s] = "open"

\* C24: the life of a group.  No group has a negative retained_cost.  A name
\* leaves session_groups only when its group has no member and the refund
\* brought its retained_cost to 0.  While a group stays, its retained_cost
\* grows only in a step in which a member leaves it, by that session's
\* cost, and falls only in the periodic recalculation, by the refund and not
\* below 0.
C24_GroupLifecycle ==
    /\ [](\A g \in DOMAIN groups : groups[g].retained_cost >= 0)
    /\ [][\A n \in DOMAIN session_groups :
            LET g == session_groups[n]
                before == groups[g].retained_cost
            IN IF n \notin DOMAIN session_groups'
               THEN /\ groups[g].sessions = {}
                    /\ before - refund <= 0
                    /\ next_recalc' # next_recalc
               ELSE /\ session_groups'[n] = g
                    /\ groups'[g].retained_cost > before
                          => \E s \in groups[g].sessions \ groups'[g].sessions :
                                groups'[g].retained_cost = before + cost[s]
                    /\ groups'[g].retained_cost < before
                          => /\ next_recalc' # next_recalc
                             /\ groups'[g].retained_cost = Max(0, before - refund)]_vars

\* Sessions connected and left, their cost was retained, and a later
\* recalculation removed every group.
C24_Witness ==
    /\ session_counter >= 1
    /\ DOMAIN session_groups = {}
    /\ now >= RecalcPeriod

\* C26: pausing at the session limit.  When _manage_servers takes a wake-up
\* (it clears session_event) while not paused and with max_sessions sessions
\* or more registered, no non-RPC listener is left in the servers map, the
\* RPC listener is left as it was, and the manager is paused, at once or, if
\* it had listeners to close, when their closing ended (unless serve ended
\* meanwhile).  The RPC listener leaves the map only in the step in which
\* serve ends.
C26_PauseAtLimit ==
    /\ [][(manage_pc = "wait" /\ session_event /\ ~session_event'
           /\ ~paused /\ Cardinality(Registered) >= env.max_sessions)
            => /\ servers' \cap ExternalServices = {}
               /\ ("rpc" \in servers) = ("rpc" \in servers')
               /\ paused' \/ manage_pc' = "closing"]_vars
    /\ [][(manage_pc = "closing" /\ manage_pc' # "closing")
            => paused' \/ serve_exc' # "None"]_vars
    /\ [][("rpc" \in servers /\ "rpc" \notin servers')
            => serve_exc = "None" /\ serve_exc' # "None"]_vars

\* The manager is paused at the limit: the external listeners are closed and
\* the RPC listener is still up.
C26_Witness ==
    /\ paused
    /\ manage_pc = "wait"
    /\ Cardinality(Registered) >= env.max_sessions
    /\ servers = {"rpc"}

\* C27: resuming is live.  Whenever the manager is paused with no more than
\* floor(max_sessions * 19 / 20) sessions registered, either the count rises
\* above that again or the manager gets to the end of
\* _start_external_servers and is no longer paused; paused is cleared only
\* when a listen was made for every external service.  No wake-up is lost:
\* whenever the manager waits on session_event while paused with the count
\* at or below the watermark, the event is set.
C27_ResumeLiveness ==
    /\ (paused /\ Cardinality(Registered) <= (env.max_sessions * 19) \div 20)
          ~> (~paused \/ Cardinality(Registered) > (env.max_sessions * 19) \div 20)
    /\ [][(paused /\ ~paused') => (start_queue' = <<>> /\ server_listening')]_vars
    /\ [](manage_pc = "wait" /\ paused
          /\ Cardinality(Registered) <= (env.max_sessions * 19) \div 20
             => session_event)

\* The manager had paused, the count fell to the watermark, and the external
\* listeners are up again.
C27_Witness ==
    /\ ~paused
    /\ manage_pc = "wait"
    /\ session_counter >= env.max_sessions
    /\ Cardinality(Registered) <= (env.max_sessions * 19) \div 20
    /\ ExternalServices \subseteq servers
    /\ ~session_event

\* What C28 asks of a subscribe request for alias a (script hash x) in the
\* step in which its handler runs or ends: while address_status is still
\* awaited, and when it failed, hashX_subs and mempool_statuses are as
\* before; when it succeeded, x is subscribed under a, nothing else changed
\* in hashX_subs, and a hashX that was subscribed before leaves the number of
\* subscriptions as it was.
subscribe_post(x, a) ==
    IF sh'[1].pc = "db" \/ sh'[1].out = "BAD_REQUEST"
    THEN hashX_subs' = hashX_subs /\ mempool_statuses' = mempool_statuses
    ELSE /\ sh'[1].out = "ok"
         /\ DOMAIN hashX_subs'[0] = DOMAIN hashX_subs[0] \cup {x}
         /\ hashX_subs'[0][x] = a
         /\ \A y \in DOMAIN hashX_subs[0] \ {x} : hashX_subs'[0][y] = hashX_subs[0][y]
         /\ x \in DOMAIN hashX_subs[0]
               => Cardinality(DOMAIN hashX_subs'[0]) = Cardinality(DOMAIN hashX_subs[0])

\* C28: hashX_subscribe records the subscription only after address_status
\* succeeded.  A scripthash.subscribe request that fails with 'history too
\* large', from the cache or from the DB, leaves hashX_subs and
\* mempool_statuses unchanged; one that succeeds leaves exactly the
\* subscriptions there were plus its hashX, under the alias it was sent
\* with, so that subscribing again keeps sub_count and takes the latest
\* alias.
C28_SubscribeAfterStatus ==
    [][/\ \A a \in {"ax1", "bx1"} :
             ShSubscribe(1, 0, a) => subscribe_post(scripthash_to_hashX(a), a)
       /\ ShDbReturn(1) => subscribe_post(sh[1].x, sh[1].alias)]_vars

\* x1, subscribed under bx1 with a transaction in the mempool, was
\* subscribed to again when its history had become too large: the request
\* failed and the subscription and its mempool status are still there.
C28_Witness ==
    /\ sh[1].out = "BAD_REQUEST"
    /\ 0 \in DOMAIN hashX_subs
    /\ "x1" \in DOMAIN hashX_subs[0]
    /\ hashX_subs[0]["x1"] = "bx1"
    /\ "x1" \in DOMAIN mempool_statuses[0]

\* What C29 asks of the step in which the notify task of session 0 learns
\* that the status of x cannot be computed: x is no key of hashX_subs and
\* mempool_statuses any more, the status entered for its alias is None, and
\* the task is where it was, with what it had collected for other aliases
\* kept and the rest of its loop still to do.
discard_post(x, alias) ==
    /\ x \notin DOMAIN hashX_subs'[0]
    /\ x \notin DOMAIN mempool_statuses'[0]
    /\ \A y \in DOMAIN hashX_subs[0] \ {x} :
          y \in DOMAIN hashX_subs'[0] /\ hashX_subs'[0][y] = hashX_subs[0][y]
    /\ \E i \in 1..Len(ntask'[0].changed) :
          /\ ntask'[0].changed[i].alias = alias
          /\ ntask'[0].changed[i].status = NoStatus
    /\ \A i \in 1..Len(ntask[0].changed) :
          ntask[0].changed[i].alias # alias
             => \E j \in 1..Len(ntask'[0].changed) :
                   ntask'[0].changed[j] = ntask[0].changed[i]
    /\ ntask'[0].pc = ntask[0].pc
    /\ ntask'[0].todo = ntask[0].todo \ {x}

\* C29: when, during notify, limited_history answers with the 'history too
\* large' error for a subscribed hashX, from the cache or from the DB, the
\* subscription is discarded and None is the status collected for its alias,
\* the task goes on with its other subscriptions, and in the end it sends a
\* notification for everything it collected.
C29_DiscardOnError ==
    [][/\ \A x \in HashXs :
             (/\ NotifyItem(0, x)
              /\ x \in DOMAIN hashX_subs[0]
              /\ x \in DOMAIN history_cache /\ history_cache[x].err)
                => discard_post(x, hashX_subs[0][x])
       /\ (/\ NotifyDbReturn(0)
           /\ history_cache'[ntask[0].cur].err)
             => discard_post(ntask[0].cur, ntask[0].alias)
       /\ NotifySend(0)
             => /\ Len(sent'[0]) = Len(sent[0]) + Len(ntask[0].changed)
                /\ \A i \in 1..Len(ntask[0].changed) :
                      LET n == sent'[0][Len(sent[0]) + i]
                      IN /\ n.param = ntask[0].changed[i].alias
                         /\ n.status = ntask[0].changed[i].status]_vars

\* The session was notified of one dispatch with None for ax1, whose
\* subscription is gone, and with a status for ax2, which is still
\* subscribed.
C29_Witness ==
    /\ 0 \in DOMAIN sent
    /\ "x1" \notin DOMAIN hashX_subs[0]
    /\ "x2" \in DOMAIN hashX_subs[0]
    /\ \E i, j \in 1..Len(sent[0]) :
          /\ sent[0][i].param = "ax1" /\ sent[0][i].status = NoStatus
          /\ sent[0][j].param = "ax2" /\ sent[0][j].status # NoStatus
          /\ sent[0][i].d = sent[0][j].d

\* C30: remove_session removes a session "if there".  A call for a session
\* that is not in the registry ends normally and leaves the registry, the
\* members of every group and every retained_cost as they were.
C30_RemoveIfThere ==
    [][\A s \in SessionObjects \ Registered :
          RemoveAbsent(s)
             => /\ remove_out' = "ok"
                /\ sessions' = sessions
                /\ groups' = groups]_vars

\* ---------------------------------------------------------------- C31
\* The names a session group can have.
GroupNames == {timeslice_name(st) : st \in 0..MaxTime} \cup {"net1"}

\* The group of this name is in session_groups and has no member.
Abandoned(n) ==
    /\ n \in DOMAIN session_groups
    /\ groups[session_groups[n]].sessions = {}

\* C31: with a positive hard limit, a group in session_groups whose sessions
\* have all departed is eventually removed from session_groups, unless it
\* gets a new member: every period of _recalc_concurrency lowers its
\* retained_cost by period * hard_limit / 5000, down to 0, and a group with
\* no member whose retained_cost is 0 after the refund is dropped.
C31_GroupReclaimed ==
    /\ \A n \in GroupNames :
          (env.cost_hard_limit > 0 /\ Abandoned(n)) ~> ~Abandoned(n)
    /\ [][RecalcPeriodEnds =>
            \A n \in DOMAIN session_groups :
               LET g == session_groups[n]
               IN IF Abandoned(n) /\ Max(0, groups[g].retained_cost - refund) = 0
                  THEN n \notin DOMAIN session_groups'
                  ELSE /\ n \in DOMAIN session_groups'
                       /\ session_groups'[n] = g
                       /\ groups'[g].retained_cost
                             = Max(0, groups[g].retained_cost - refund)]_vars

\* A group that kept retained cost through a period after its last member
\* left, under a positive hard limit, and has since been dropped.
C31_Witness ==
    /\ env.cost_hard_limit > 0
    /\ session_counter = MaxSidReclaim
    /\ Registered = {}
    /\ DOMAIN session_groups = {}
    /\ now = MaxTime
    /\ next_recalc = MaxTime + RecalcPeriod

\* ---------------------------------------------------------------- C32
\* C32: a tx_hashes_at_blockheight call that missed the cache eventually
\* returns or raises, given that DB fetches complete and reorg signals stop.
\* When its fetch returns under an unchanged reorg_count it installs the list
\* read and returns it without another fetch; it fetches again exactly when
\* reorg_count changed during the fetch, installing nothing; a DBError ends
\* the call with BAD_REQUEST and installs nothing.
C32_TxHashesTerminates ==
    /\ \A t \in TxTasks :
          (tx[t].pc # "idle")
             ~> (tx[t].pc = "idle" /\ tx[t].result \in {"ok", "error"})
    /\ [][\A t \in TxTasks :
             (\E f \in BOOLEAN : TxDbReturn(t, f)) =>
                IF tx[t].snap = reorg_count
                THEN /\ tx'[t].pc = "idle"
                     /\ tx'[t].result = "ok"
                     /\ tx'[t].fetches = tx[t].fetches
                     /\ tx[t].height \in DOMAIN tx_hashes_cache'
                     /\ tx_hashes_cache'[tx[t].height] = tx[t].data
                ELSE /\ tx'[t].pc = "db"
                     /\ tx'[t].fetches = tx[t].fetches + 1
                     /\ tx_hashes_cache' = tx_hashes_cache]_vars
    /\ [][\A t \in TxTasks :
             TxDbError(t) =>
                /\ tx'[t].pc = "idle"
                /\ tx'[t].result = "error"
                /\ tx_hashes_cache' = tx_hashes_cache]_vars

\* One call fetched again after a reorg and then met a DB error, installing
\* nothing, while another call returned the list of its only fetch.
C32_Witness ==
    \E t, u \in TxTasks :
        /\ tx[t].pc = "idle" /\ tx[t].result = "error" /\ tx[t].fetches = 2
        /\ tx[u].pc = "idle" /\ tx[u].result = "ok" /\ tx[u].fetches = 1
        /\ tx[u].height \in DOMAIN tx_hashes_cache
        /\ tx[t].height \notin DOMAIN tx_hashes_cache

\* ---------------------------------------------------------------- C33
\* C33: in every reachable state of a session, every key of
\* mempool_statuses is a key of hashX_subs, also when scripthash.unsubscribe
\* runs while a notify or a subscribe for the same hashX is suspended inside
\* address_status.
C33_MempoolKeysSubscribed ==
    \A s \in DOMAIN mempool_statuses :
        DOMAIN mempool_statuses[s] \subseteq DOMAIN hashX_subs[s]

\* ---------------------------------------------------------------- C34
\* C34: once scripthash.unsubscribe for a script hash has returned on a
\* session, the session sends no blockchain.scripthash.subscribe
\* notification for it until it is subscribed again, also when a notify for
\* it was in progress at the time of the unsubscribe.
C34_NoNotificationAfterUnsubscribe ==
    [][\A s \in DOMAIN ntask :
          NotifySend(s) =>
             \A j \in 1..Len(ntask[s].changed) :
                ntask[s].changed[j].x \notin unsub_of(s)]_vars

\* ---------------------------------------------------------------- C35
\* _notify_sessions has invalidated the history cache for the last block
\* that touched x: the block was dispatched and the call is past the loop
\* that deletes the touched entries.
InvalidatedForLastBlock(x) ==
    /\ db_hist[x].at > 0
    /\ x \notin touched_acc
    /\ ~(notify_pc = "refresh" /\ x \in notify_args.touched)

\* C35: after _notify_sessions has invalidated the history-cache entry of a
\* touched hashX for a new height, the history cache never holds for that
\* hashX a history read from the DB before that height was indexed: a
\* limited_history call whose DB read started earlier does not install its
\* result after the invalidation.
C35_NoStaleHistoryAfterInvalidation ==
    \A x \in DOMAIN history_cache :
        InvalidatedForLastBlock(x) => history_cache[x].at = db_hist[x].at

\* ---------------------------------------------------------------- C36
\* C36: the session-side operations that can run after the session left the
\* registry tolerate its absence: extra_cost returns 0, and
\* on_disconnect_due_to_excessive_session_cost, reached through the same
\* bump_cost -> recalc_concurrency path, does not fail for a session that is
\* no longer in the manager's registry.
C36_DisconnectTolerant ==
    [][\A s \in SessionObjects \ Registered, d \in BumpDeltas :
          ExcessiveCost(s, d)
             => /\ extra_seen'[s] = 0
                /\ disconnect_out' # "KeyError"]_vars

\* ---------------------------------------------------------------- C37
\* C37: the number of registered external (non-RPC) sessions never exceeds
\* max_sessions, under any interleaving of connection accepts (add_session)
\* with the _manage_servers task that stops the listeners.
C37_ExternalSessionsBounded ==
    Cardinality({s \in Registered : skind[s] # "rpc"}) <= env.max_sessions

\* ---------------------------------------------------------------- C38
\* Caller c ends in this step with the error of its daemon request.
FeeFails(c) ==
    \/ FeeDaemonReturn(c, Raised)
    \/ FeeRelayReturn(c, Raised)

\* C38: the lock of a key is released on every exit path.  It is held only
\* by a caller that is inside "async with lock" (awaiting the daemon, or
\* handed the lock and about to run), and callers wait only behind a holder.
\* When the holder's daemon request fails the cache entry stays what it was
\* (the placeholder, if no request succeeded before), the error goes to
\* that caller alone, and the lock passes to the first waiter, if any.
\* No error is ever cached or returned to a caller that did not ask the
\* daemon itself; a caller that gets the lock and finds no entry of the
\* current tip asks the daemon itself.  As daemon requests terminate, every
\* caller returns.
C38_LockReleased ==
    /\ [](\A k \in FeeKeys :
            LET h == fee_lock[k].holder
            IN /\ h # NoCaller =>
                     /\ fee[h].key = k
                     /\ fee[h].pc \in {"waiting", "daemon", "relayfee"}
               /\ fee_lock[k].waiters # <<>> => h # NoCaller
               /\ \A i \in 1..Len(fee_lock[k].waiters) :
                     LET w == fee_lock[k].waiters[i]
                     IN fee[w].pc = "waiting" /\ fee[w].key = k
               /\ k \in DOMAIN estimatefee_cache =>
                     estimatefee_cache[k].feerate # Raised)
    /\ [](\A c \in FeeCallers :
            /\ fee[c].pc = "waiting" =>
                  \/ fee_lock[fee[c].key].holder = c
                  \/ \E i \in 1..Len(fee_lock[fee[c].key].waiters) :
                        fee_lock[fee[c].key].waiters[i] = c
            /\ (fee[c].pc = "done" /\ fee[c].result = Raised) => fee[c].via = "daemon")
    /\ [][\A c \in FeeCallers :
             FeeFails(c) =>
                LET k == fee[c].key
                IN /\ estimatefee_cache' = estimatefee_cache
                   /\ fee'[c].pc = "done" /\ fee'[c].result = Raised
                   /\ \A d \in FeeCallers \ {c} : fee'[d] = fee[d]
                   /\ fee_lock'[k].holder # c
                   /\ fee_lock[k].waiters # <<>> =>
                         fee_lock'[k].holder = Head(fee_lock[k].waiters)
                   /\ fee_lock[k].waiters = <<>> => fee_lock'[k] = FreeLock]_vars
    /\ [][\A c \in FeeCallers :
             (FeeResume(c) /\ estimatefee_cache[fee[c].key].blockhash # tip) =>
                /\ fee'[c].pc = "daemon"
                /\ daemon_calls'[fee[c].key] = daemon_calls[fee[c].key] + 1]_vars
    /\ \A c \in FeeCallers : (fee[c].pc # "idle") ~> (fee[c].pc = "done")

\* The first holder's daemon request failed while two callers waited; the
\* first waiter asked the daemon itself and got a feerate, which the second
\* waiter was answered from the cache.
C38_Witness ==
    \E k \in FeeKeys : \E c1, c2, c3 \in FeeCallers :
        /\ fee[c1].pc = "done" /\ fee[c1].key = k /\ fee[c1].result = Raised
        /\ fee[c2].pc = "done" /\ fee[c2].key = k /\ fee[c2].via = "daemon"
        /\ fee[c2].result \in FeeRates /\ fee[c2].conc
        /\ fee[c3].pc = "done" /\ fee[c3].key = k /\ fee[c3].via = "cache"
        /\ fee[c3].result = fee[c2].result /\ fee[c3].conc
        /\ daemon_calls[k] = 2
        /\ fee_lock[k] = FreeLock
        /\ tip_changes = 0

\* ---------------------------------------------------------------- C39
\* The header notifications sent to session s.
HeaderNotes(s) == {i \in 1..Len(sent[s]) : sent[s][i].method = "headers"}

\* C39: hsub_results and notified_height are none together; whenever
\* hsub_results is not none its height is notified_height and its hex is the
\* raw header of that height.  The two are assigned in one step, so every
\* header notification carries a height and the header of that height.
C39_HeaderPairConsistent ==
    /\ [](/\ (hsub_results = NoHsub) <=> (notified_height = NoHeight)
          /\ hsub_results # NoHsub =>
                /\ hsub_results.height = notified_height
                /\ hsub_results.hex = raw_header_hex(notified_height)
          /\ \A s \in DOMAIN sent : \A i \in HeaderNotes(s) :
                sent[s][i].param = raw_header_hex(sent[s][i].height))
    /\ [][(hsub_results' # hsub_results) <=> (notified_height' # notified_height)]_vars

\* serve started at height 1; the session subscribed to headers and was
\* notified of the header of height 2 after the refresh for that height.
C39_Witness ==
    /\ hsub_results = [hex |-> "header2", height |-> 2]
    /\ notified_height = 2
    /\ 0 \in DOMAIN sent
    /\ Len(sent[0]) = 1
    /\ sent[0][1].method = "headers"
    /\ sent[0][1].param = "header2" /\ sent[0][1].height = 2

\* ------------------------------------------- the key a notification carries
\* serve running, with the key strings that the first session subscribes
\* with recorded.
InitKeys ==
    /\ Serving([max_sessions |-> 1000, cost_hard_limit |-> 100,
                max_send |-> MinMaxSend, session_timeout |-> 10])
    /\ InitCachesAt([x \in HashXs |-> [len |-> 1, at |-> 0]], TRUE, {}, {0})
    /\ ReaperOff

\* The kinds whose notifications are followed, and a dispatch of the
\* notifier that touches an asset, an h160 and a qualifier.
KeyKinds == {"asset_subs", "h160_tag_subs", "qualifier_validator_subs"}

KeysInput == [NoSets EXCEPT !["asset_subs"] = {"A"},
                            !["h160_tag_subs"] = {H160Lower},
                            !["qualifier_validator_subs"] = {"#Q"}]

\* One session that subscribes to and unsubscribes from an asset, an h160
\* and the restricted associations of a qualifier, one request at a time and
\* with every key string a client may send; the notifier dispatches those
\* keys once.
NextKeys ==
    \/ NewSession("tcp", "net1", 1)
    \/ \E kd \in KeyKinds : \E key \in KeysOf(kd) :
          sub_pending = {} /\ SubscribeCall(0, kd, key)
    \/ \E kd \in KeyKinds : \E key \in KeysOf(kd) : SubscribeDone(0, kd, key)
    \/ \E kd \in KeyKinds : \E key \in KeysOf(kd) : Unsubscribe(0, kd, key)
    \/ dispatches = 0 /\ Dispatch({}, KeysInput)
    \/ NotifyStart(0)
    \/ NotifyKind(0)
    \/ NotifyJoin

SpecKeys == InitKeys /\ [][NextKeys]_vars

\* The notifications that a step appends to what session s was sent.
NewNotes(s) == {sent'[s][j] : j \in (Len(sent[s]) + 1)..Len(sent'[s])}

\* C40: for every subscription kind, the key carried in a pushed
\* notification equals a key string the client supplied when it subscribed
\* (and has not unsubscribed since): the asset name, the h160 hex string,
\* the '#'-prefixed qualifier name for the restricted associations.
C40_NotifiedKeyIsSuppliedKey ==
    [][\A s \in DOMAIN supplied :
          NotifyKind(s) =>
              \A n \in NewNotes(s) : n.param \in supplied[s][n.method]]_vars

====
